---- MODULE Spec2Model ----
(***************************************************************************)
(* Planning Agent System: the Plan aggregate (src/models.py), the service  *)
(* layer's load -> mutate -> save cycles (src/services.py) and the CouchDB *)
(* gateway (src/database.py).                                              *)
(*                                                                         *)
(*                                                                         *)
(* Twenty specifications share the variables.  Spec, SpecOrder, SpecDeps, *)
(* SpecDangling, SpecFrame and SpecUpdate run the aggregate's operations  *)
(* on plan under six families of requests, SpecQuery its queries between  *)
(* them, and SpecStep the methods of Step called on a step directly;       *)
(* SpecDerive applies the status derivation to two drawn plans and SpecPct *)
(* get_progress to a drawn plan; SpecCycle and SpecRun start from drawn    *)
(* plans with dependencies, SpecRun with a caller that works the plan off. *)
(* SpecSvc, SpecMgmt, SpecCreate, SpecSave, SpecNotFound and SpecRegen run *)
(* concurrent service requests against the store, each request one step   *)
(* per database call; SpecRead runs the reads of the gateway, and          *)
(* SpecRound stores a drawn plan and loads it again.                       *)
(*                                                                         *)
(* A step is a record [step_id, order, description, status, depends_on,    *)
(* notes, completed_at].  step_id is a uuid4 in the code: here the k-th id *)
(* ever issued is k, and ForeignId is an id string no step ever carries.   *)
(* depends_on is a list in the code that is only ever tested for           *)
(* membership, kept as a set.  completed_at is TRUE when the timestamp is  *)
(* set, FALSE when it is None.  Optional[Step] results are sequences of    *)
(* length 0 (None) or 1.                                                   *)
(*                                                                         *)
(* A plan is a record [plan_id, name, user_id, description, status,        *)
(* created_at, updated_at, steps].  A stamp is a reading of clock, which   *)
(* Tick advances up to MaxClock: calls of datetime.utcnow() with no Tick   *)
(* between them return the same reading, as calls within one microsecond   *)
(* do, and a later call never returns an earlier reading.  A handler that  *)
(* stamps two fields calls utcnow() twice: Plan(...) reads created_at      *)
(* first and updated_at, which add_step writes again, at a reading that    *)
(* is the same or later.  created_at and updated_at of a step are not      *)
(* kept.                                                                   *)
(***************************************************************************)
EXTENDS Integers, Sequences, FiniteSets, TLC

VARIABLES
    plan,     \* the Plan aggregate in memory; under the services, the Plan
              \* that create_plan_with_steps returned
    nextId,   \* the number of step ids uuid4 has issued, plus one
    last,     \* the last operation on plan (history)
    other,    \* a second Plan aggregate, for comparing two plans: another
              \* plan (SpecDerive), or plan before the last call (SpecFrame)
    store,    \* the CouchDB document stored under one plan_id
    svc,      \* the service requests in flight, one per caller
    clock     \* what datetime.utcnow() returns now

vars == <<plan, nextId, last, other, store, svc, clock>>

(* ------------------------------ bounds --------------------------------- *)
\* most steps of a plan, where every status is a possible input
MaxSteps == 2
\* most steps of a plan, where every order is a possible input
MaxOrdSteps == 3
\* most step ids issued, where every order is a possible input
MaxOrdIds == 3
\* largest explicit order a request carries
MaxOrder == 2
\* most entries of one depends_on
MaxDeps == 2
\* most steps of a plan and most step ids issued, where dependencies match
\* no step
MaxDangSteps == 2
MaxDepIds == 3
\* most steps of a plan, where descriptions and notes are inputs
MaxFrameSteps == 2
\* most step requests of a create or a regenerate, where plans are managed
MaxMgmtSteps == 2
MaxCycleSteps == 2
MaxQuerySteps == 2
MaxRunSteps == 2
MaxUpdSteps == 2
\* the last reading of the clock
MaxClock == 1
\* most steps of a plan that is stored and loaded again
MaxRoundSteps == 2
\* most step requests of the create, where requests meet a deleted plan
MaxGoneSteps == 1
\* most steps of a plan that is regenerated, and of a regenerate request
MaxRegenSteps == 2
\* most steps of a plan whose every combination of statuses is drawn for
\* its progress
MaxPctSteps == 3
\* the steps of two long plans: one short of the length from which one
\* step is less than half a hundredth of a percent, and one beyond it
NearTotal == 19998
LargeTotal == 20001

(* --------------------------- program values ---------------------------- *)
\* order: Optional[int] = None
NoOrder == 0
\* an id that is the step_id of no step
ForeignId == 0
\* status: Optional[StepStatus] = None
NoStatus == "none"
\* notes: Optional[str] = None
NoNotes == "None"
\* the description every plan is created with
PlanText == "plan"
\* description: Optional[str] = None
NoText == "None"
\* user_id: Optional[str] = None
NoUser == "None"
\* name: Optional[str] = None
NoName == "None"
\* the identity a plan is created with: its generated plan_id, and the name
\* and user_id of the create request
PlanId == "p1"
PlanName == "name"
UserId == "u1"

StepStatus == {"pending", "in_progress", "completed", "failed", "skipped"}
PlanStatus == {"not_started", "in_progress", "completed", "paused", "failed"}

Step(id, order, text, deps, notes) ==
    [step_id |-> id, order |-> order, description |-> text,
     status |-> "pending", depends_on |-> deps, notes |-> notes,
     completed_at |-> FALSE]

EmptyPlan ==
    [plan_id |-> PlanId, name |-> PlanName, user_id |-> UserId,
     description |-> PlanText, status |-> "not_started", created_at |-> 0,
     updated_at |-> 0, steps |-> <<>>]

\* datetime.utcnow(): the reading of the clock
utcnow == clock

(* ------------------------- Plan._update_plan_status -------------------- *)
\* the in_progress rule tried before the failed rule
DeriveStatus_ProgressFirst(steps) ==
    LET st == {steps[i].status : i \in 1..Len(steps)} IN
    IF Len(steps) = 0 THEN "not_started"
    ELSE IF \A i \in 1..Len(steps) : steps[i].status = "completed" THEN "completed"
    ELSE IF "in_progress" \in st \/ "completed" \in st THEN "in_progress"
    ELSE IF "failed" \in st THEN "failed"
    ELSE "not_started"

\* only the step stored last is looked at for failure
DeriveStatus_LastFailed(steps) ==
    LET st == {steps[i].status : i \in 1..Len(steps)} IN
    IF Len(steps) = 0 THEN "not_started"
    ELSE IF \A i \in 1..Len(steps) : steps[i].status = "completed" THEN "completed"
    ELSE IF steps[Len(steps)].status = "failed" THEN "failed"
    ELSE IF "in_progress" \in st \/ "completed" \in st THEN "in_progress"
    ELSE "not_started"

\* no rule for the plan without steps: all() of nothing is true
DeriveStatus_NoEmptyRule(steps) ==
    LET st == {steps[i].status : i \in 1..Len(steps)} IN
    IF \A i \in 1..Len(steps) : steps[i].status = "completed" THEN "completed"
    ELSE IF "failed" \in st THEN "failed"
    ELSE IF "in_progress" \in st \/ "completed" \in st THEN "in_progress"
    ELSE "not_started"

\* a skipped step counts as done: the plan is completed when every step is
\* completed or skipped
DeriveStatus_SkippedDone(steps) ==
    LET st == {steps[i].status : i \in 1..Len(steps)} IN
    IF Len(steps) = 0 THEN "not_started"
    ELSE IF \A i \in 1..Len(steps) : steps[i].status \in {"completed", "skipped"}
    THEN "completed"
    ELSE IF "failed" \in st THEN "failed"
    ELSE IF "in_progress" \in st \/ "completed" \in st THEN "in_progress"
    ELSE "not_started"

DeriveStatus(steps) ==
    LET st == {steps[i].status : i \in 1..Len(steps)} IN
    IF Len(steps) = 0 THEN "not_started"
    ELSE IF \A i \in 1..Len(steps) : steps[i].status = "completed" THEN "completed"
    ELSE IF "failed" \in st THEN "failed"
    ELSE IF "in_progress" \in st \/ "completed" \in st THEN "in_progress"
    ELSE "not_started"

update_plan_status(p) == [p EXCEPT !.status = DeriveStatus(p.steps)]

(* ------------------------------ Plan.add_step -------------------------- *)
\* index of the first existing step whose order is greater, or Len + 1
InsertPos(steps, order) ==
    IF \E i \in 1..Len(steps) : steps[i].order > order
    THEN CHOOSE i \in 1..Len(steps) :
            /\ steps[i].order > order
            /\ \A j \in 1..(i - 1) : ~(steps[j].order > order)
    ELSE Len(steps) + 1

InsertAt(steps, i, step) ==
    SubSeq(steps, 1, i - 1) \o <<step>> \o SubSeq(steps, i, Len(steps))

\* the step that holds the requested order is not shifted
ShiftOrders_Strict(steps, id, order) ==
    [i \in 1..Len(steps) |->
        IF steps[i].step_id # id /\ steps[i].order > order
        THEN [steps[i] EXCEPT !.order = @ + 1]
        ELSE steps[i]]

\* every step at or behind the requested order is given the order next to
\* it
ShiftOrders_Next(steps, id, order) ==
    [i \in 1..Len(steps) |->
        IF steps[i].step_id # id /\ steps[i].order >= order
        THEN [steps[i] EXCEPT !.order = order + 1]
        ELSE steps[i]]

\* "Reorder subsequent steps"
ShiftOrders(steps, id, order) ==
    [i \in 1..Len(steps) |->
        IF steps[i].step_id # id /\ steps[i].order >= order
        THEN [steps[i] EXCEPT !.order = @ + 1]
        ELSE steps[i]]

\* an omitted order defaults to the number of steps
DefaultOrder_Count(p, order) == IF order = NoOrder THEN Len(p.steps) ELSE order

DefaultOrder(p, order) == IF order = NoOrder THEN Len(p.steps) + 1 ELSE order

add_step(p, id, text, order, deps, notes) ==
    LET o == DefaultOrder(p, order)
        step == Step(id, o, text, deps, notes)
        ins == InsertAt(p.steps, InsertPos(p.steps, o), step)
    IN update_plan_status([p EXCEPT !.steps = ShiftOrders(ins, id, o),
                                    !.updated_at = utcnow])

(* ------------------------------ Plan.get_step -------------------------- *)
get_step(p, id) ==
    IF \E i \in 1..Len(p.steps) : p.steps[i].step_id = id
    THEN <<p.steps[CHOOSE i \in 1..Len(p.steps) :
                /\ p.steps[i].step_id = id
                /\ \A j \in 1..(i - 1) : p.steps[j].step_id # id]>>
    ELSE <<>>

(* ----------------------------- Step.update_status ---------------------- *)
\* completed_at is cleared when the new status is not completed
update_status_Cleared(step, status, notes) ==
    [step EXCEPT !.status = status,
                 !.completed_at = (status = "completed"),
                 !.notes = IF notes # NoNotes THEN notes ELSE @]

\* the notes passed with a status are not taken
update_status_NotesDropped(step, status, notes) ==
    [step EXCEPT !.status = status,
                 !.completed_at = IF status = "completed" THEN TRUE ELSE @]

\* a completed step keeps its status
update_status_Forward(step, status, notes) ==
    [step EXCEPT !.status = IF @ = "completed" THEN @ ELSE status,
                 !.completed_at = IF status = "completed" THEN TRUE ELSE @,
                 !.notes = IF notes # NoNotes THEN notes ELSE @]

update_status(step, status, notes) ==
    [step EXCEPT !.status = status,
                 !.completed_at = IF status = "completed" THEN TRUE ELSE @,
                 !.notes = IF notes # NoNotes THEN notes ELSE @]

(* ----------------------------- Step.mark_completed --------------------- *)
mark_completed(step) ==
    [step EXCEPT !.status = "completed", !.completed_at = TRUE]

(* ----------------------------- Plan.update_step ------------------------ *)
update_step_ok(p, id) == get_step(p, id) # <<>>

update_step(p, id, status, notes) ==
    IF ~update_step_ok(p, id) THEN p
    ELSE LET k == CHOOSE i \in 1..Len(p.steps) :
                    /\ p.steps[i].step_id = id
                    /\ \A j \in 1..(i - 1) : p.steps[j].step_id # id
             upd == IF status # NoStatus
                    THEN [p.steps EXCEPT ![k] = update_status(@, status, notes)]
                    ELSE IF notes # NoNotes
                    THEN [p.steps EXCEPT ![k].notes = notes]
                    ELSE p.steps
         IN update_plan_status([p EXCEPT !.steps = upd,
                                         !.updated_at = utcnow])

(* ----------------------------- Plan.delete_step ------------------------ *)
\* position of steps[i] after the stable list.sort(key=order)
Rank(steps, i) ==
    Cardinality({j \in 1..Len(steps) :
        \/ steps[j].order < steps[i].order
        \/ (steps[j].order = steps[i].order /\ j <= i)})

SortByOrder(steps) ==
    [k \in 1..Len(steps) |->
        steps[CHOOSE i \in 1..Len(steps) : Rank(steps, i) = k]]

\* the id is also taken out of the depends_on of the steps that stay
Remove_Scrubbed(steps, id) ==
    LET kept == SelectSeq(steps, LAMBDA s : s.step_id # id)
    IN [i \in 1..Len(kept) |-> [kept[i] EXCEPT !.depends_on = @ \ {id}]]

Remove(steps, id) == SelectSeq(steps, LAMBDA s : s.step_id # id)

\* the remaining steps keep their orders
Renumber_Keep(steps) == steps

Renumber(steps) == [i \in 1..Len(steps) |-> [steps[i] EXCEPT !.order = i]]

\* every id is taken for the id of a step
delete_step_ok_Any(p, id) == TRUE

delete_step_ok(p, id) == get_step(p, id) # <<>>

\* the step is not looked up first
delete_step_Unchecked(p, id) ==
    update_plan_status(
        [p EXCEPT !.steps = Renumber(SortByOrder(Remove(p.steps, id))),
                  !.updated_at = utcnow])

delete_step(p, id) ==
    IF ~delete_step_ok(p, id) THEN p
    ELSE update_plan_status(
            [p EXCEPT !.steps = Renumber(SortByOrder(Remove(p.steps, id))),
                      !.updated_at = utcnow])

(* ----------------------------- Plan.reset_steps ------------------------ *)
\* every step is built anew from its id, order, description and
\* dependencies, and so loses its notes
reset_steps_Rebuilt(p) ==
    [p EXCEPT !.steps = [i \in 1..Len(p.steps) |->
                            Step(p.steps[i].step_id, p.steps[i].order,
                                 p.steps[i].description, p.steps[i].depends_on,
                                 NoNotes)],
              !.status = "not_started",
              !.updated_at = utcnow]

\* the plan status is derived from the steps as they were before the loop
reset_steps_DerivedBefore(p) ==
    [p EXCEPT !.steps = [i \in 1..Len(p.steps) |->
                            [p.steps[i] EXCEPT !.status = "pending",
                                               !.completed_at = FALSE]],
              !.status = DeriveStatus(p.steps),
              !.updated_at = utcnow]

reset_steps(p) ==
    [p EXCEPT !.steps = [i \in 1..Len(p.steps) |->
                            [p.steps[i] EXCEPT !.status = "pending",
                                               !.completed_at = FALSE]],
              !.status = "not_started",
              !.updated_at = utcnow]

(* --------------------------- Plan._dependencies_met -------------------- *)
\* dependencies are not looked at
dependencies_met_Ignored(p, step) == TRUE

\* a dependency that is not found does not block
dependencies_met_FoundOnly(p, step) ==
    \A d \in step.depends_on :
        \/ get_step(p, d) = <<>>
        \/ get_step(p, d)[1].status = "completed"

\* the id of the step itself is passed over
dependencies_met_SelfSkipped(p, step) ==
    \A d \in step.depends_on \ {step.step_id} :
        /\ get_step(p, d) # <<>>
        /\ get_step(p, d)[1].status = "completed"

\* only a step without dependencies is ready
dependencies_met_NoneOnly(p, step) == step.depends_on = {}

dependencies_met(p, step) ==
    \A d \in step.depends_on :
        /\ get_step(p, d) # <<>>
        /\ get_step(p, d)[1].status = "completed"

(* ----------------------------- Plan.get_next_step ---------------------- *)
\* the steps are scanned in stored sequence, not sorted by order
get_next_step_Stored(p) ==
    LET cand == {i \in 1..Len(p.steps) :
                    p.steps[i].status = "pending" /\ dependencies_met(p, p.steps[i])}
    IN IF cand = {} THEN <<>>
       ELSE <<p.steps[CHOOSE i \in cand : \A j \in cand : i <= j]>>

get_next_step(p) ==
    LET sorted == SortByOrder(p.steps)
        cand == {i \in 1..Len(sorted) :
                    sorted[i].status = "pending" /\ dependencies_met(p, sorted[i])}
    IN IF cand = {} THEN <<>>
       ELSE <<sorted[CHOOSE i \in cand : \A j \in cand : i <= j]>>

\* what a get_next_step leaves of the plan: all of it, sorted() builds a
\* new list and plan.steps is not written
after_get_next_step(p) == p

(* ----------------------------- Plan.get_progress ----------------------- *)
\* sum(1 for step in self.steps if step.status == status)
CountStatus(p, statuses) ==
    Cardinality({i \in 1..Len(p.steps) : p.steps[i].status \in statuses})

\* round(x, 2) keeps hundredths: a percentage is kept as its number of
\* hundredths, 0.0 as 0 and 100.0 as 100 * PercentScale
PercentScale == 100

\* the percentage is rounded up to the next hundredth
Percentage_Up(completed, total) ==
    LET q == (completed * 100 * PercentScale) \div total
        r == (completed * 100 * PercentScale) % total
    IN IF r > 0 THEN q + 1 ELSE q

\* completed / total and the product with 100 are IEEE doubles: each is
\* rounded to a significand of 1 + MantissaBits bits, to the nearest and to
\* the even one of two as near.
MantissaBits == 52

\* completed scaled by a power of two into [total, 2 * total)
RECURSIVE Normalised(_, _)
Normalised(n, total) == IF n >= total THEN n ELSE Normalised(2 * n, total)

\* k more bits of the long division by total, four at a time:
\* <<remainder, the quotient modulo 1024>>
RECURSIVE DivideBits(_, _, _, _)
DivideBits(r, low, k, total) ==
    IF k = 0 THEN <<r, low>>
    ELSE DivideBits((16 * r) % total,
                    (16 * low + ((16 * r) \div total)) % 1024,
                    k - 4, total)

\* the sign of (the double (completed / total) * 100) minus the exact
\* 100 * completed / total, for 0 < completed < total: positive, negative
\* or 0.  m is the significand of the quotient and d = m * total minus the
\* scaled numerator; the product 100 * m has 6 or 7 bits too many, which
\* are rounded away (eps).
FloatError(completed, total) ==
    LET num == Normalised(completed, total)
        dv == DivideBits(num - total, 1, MantissaBits, total)
        rest == dv[1]
        up == 2 * rest > total \/ (2 * rest = total /\ dv[2] % 2 = 1)
        d == IF up THEN total - rest ELSE 0 - rest
        mlow == (dv[2] + (IF up THEN 1 ELSE 0)) % 1024
        big == 100 * num > 128 * total \/ (100 * num = 128 * total /\ d > 0)
        plow == (100 * mlow) % 1024
        width == IF big THEN 128 ELSE 64
        cut == plow % width
        eps == IF 2 * cut < width THEN 0 - cut
               ELSE IF 2 * cut > width THEN width - cut
               ELSE IF (plow \div width) % 2 = 0 THEN 0 - cut
               ELSE width - cut
    IN eps * total + 100 * d

\* round((completed / total) * 100, 2): the hundredth nearest to the
\* double.  The double is within 2^-45 of the exact value, so it rounds as
\* the exact value does unless that lies halfway between two hundredths;
\* then the double lies above or below the half and round follows it.
Percentage(completed, total) ==
    LET q == (completed * 100 * PercentScale) \div total
        r == (completed * 100 * PercentScale) % total
    IN IF 2 * r > total THEN q + 1
       ELSE IF 2 * r < total THEN q
       ELSE IF FloatError(completed, total) > 0 THEN q + 1
       ELSE IF FloatError(completed, total) < 0 THEN q
       ELSE IF q % 2 = 0 THEN q ELSE q + 1

\* a completed step is counted as in progress too
get_progress_Overlap(p) ==
    [total_steps |-> Len(p.steps),
     completed_steps |-> CountStatus(p, {"completed"}),
     in_progress_steps |-> CountStatus(p, {"in_progress", "completed"}),
     pending_steps |-> CountStatus(p, {"pending"}),
     failed_steps |-> CountStatus(p, {"failed"}),
     skipped_steps |-> CountStatus(p, {"skipped"}),
     completion_percentage |->
        IF Len(p.steps) = 0 THEN 0
        ELSE Percentage(CountStatus(p, {"completed"}), Len(p.steps))]

get_progress(p) ==
    IF Len(p.steps) = 0
    THEN [total_steps |-> 0, completed_steps |-> 0, in_progress_steps |-> 0,
          pending_steps |-> 0, failed_steps |-> 0, skipped_steps |-> 0,
          completion_percentage |-> 0]
    ELSE [total_steps |-> Len(p.steps),
          completed_steps |-> CountStatus(p, {"completed"}),
          in_progress_steps |-> CountStatus(p, {"in_progress"}),
          pending_steps |-> CountStatus(p, {"pending"}),
          failed_steps |-> CountStatus(p, {"failed"}),
          skipped_steps |-> CountStatus(p, {"skipped"}),
          completion_percentage |->
              Percentage(CountStatus(p, {"completed"}), Len(p.steps))]

(* ------------------- DatabaseConnection (src/database.py) -------------- *)
\* A stored document is the dictionary _plan_to_dict builds; the timestamp
\* completed_at is stored as an ISO string ("iso") or null ("null"), and
\* updated_at as the ISO string of its value.
isoformat(t) == <<"iso", t>>

\* the stored string is not parsed: the field takes its default, the time
\* of loading
fromisoformat_Default(str) == utcnow

fromisoformat(str) == str[2]

step_to_dict(step) ==
    [step_id |-> step.step_id, order |-> step.order,
     description |-> step.description, status |-> step.status,
     depends_on |-> step.depends_on, notes |-> step.notes,
     completed_at |-> IF step.completed_at THEN "iso" ELSE "null"]

plan_to_dict(p) ==
    [plan_id |-> p.plan_id, name |-> p.name,
     description |-> p.description, status |-> p.status,
     user_id |-> p.user_id,
     created_at |-> isoformat(p.created_at),
     updated_at |-> isoformat(p.updated_at),
     steps |-> [i \in 1..Len(p.steps) |-> step_to_dict(p.steps[i])]]

\* depends_on and notes are not read from the document: the fields take
\* the defaults of .get
dict_to_step_Defaults(d) ==
    [step_id |-> d.step_id, order |-> d.order,
     description |-> d.description, status |-> d.status,
     depends_on |-> {}, notes |-> NoNotes,
     completed_at |-> IF d.completed_at # "null" THEN TRUE ELSE FALSE]

dict_to_step(d) ==
    [step_id |-> d.step_id, order |-> d.order,
     description |-> d.description, status |-> d.status,
     depends_on |-> d.depends_on, notes |-> d.notes,
     completed_at |-> IF d.completed_at # "null" THEN TRUE ELSE FALSE]

dict_to_plan(doc) ==
    [plan_id |-> doc.plan_id, name |-> doc.name,
     description |-> doc.description, status |-> doc.status,
     user_id |-> doc.user_id,
     created_at |-> fromisoformat(doc.created_at),
     updated_at |-> fromisoformat(doc.updated_at),
     steps |-> [i \in 1..Len(doc.steps) |-> dict_to_step(doc.steps[i])]]

\* no document, and no revision ever written.  explicit is history, not
\* stored: the status of the document was set by a metadata update, and no
\* step mutation has been saved since
NoStore ==
    [present |-> FALSE, doc |-> plan_to_dict(EmptyPlan), rev |-> 0,
     explicit |-> FALSE]

\* _dict_to_plan returns a Plan: PlanStatus(doc['status']) and
\* StepStatus(step_dict['status']) raise ValueError on a value that is no
\* member of the enumeration
parses(doc) ==
    /\ doc.status \in PlanStatus
    /\ \A i \in 1..Len(doc.steps) : doc.steps[i].status \in StepStatus

\* db[plan_id] then _dict_to_plan; <<>> on ResourceNotFound
db_get_plan(st) == IF st.present THEN <<dict_to_plan(st.doc)>> ELSE <<>>

\* get_plan logs and re-raises what _dict_to_plan raises
db_get_plan_raises(st) == st.present /\ ~parses(st.doc)

\* `for doc_id in self.db`: the ids of the documents stored
db_ids(st) == IF st.present THEN {st.doc.plan_id} ELSE {}

\* the characters of the names and name filters in use
Letters(str) ==
    CASE str = "name" -> <<"n", "a", "m", "e">>
      [] str = "renamed" -> <<"r", "e", "n", "a", "m", "e", "d">>
      [] str = "NAME" -> <<"N", "A", "M", "E">>
      [] str = "Ren" -> <<"R", "e", "n">>

\* str.lower()
lower(chars) ==
    [i \in 1..Len(chars) |->
        CASE chars[i] = "N" -> "n" [] chars[i] = "A" -> "a"
          [] chars[i] = "M" -> "m" [] chars[i] = "E" -> "e"
          [] chars[i] = "R" -> "r" [] OTHER -> chars[i]]

\* sub in chars
contains(sub, chars) ==
    \E i \in 0..(Len(chars) - Len(sub)) :
        \A j \in 1..Len(sub) : chars[i + j] = sub[j]

\* the filters of get_plans: a plan of another user, of another status or
\* whose name lacks the name filter is left out
passes(p, filter) ==
    /\ filter.user_id = NoUser \/ p.user_id = filter.user_id
    /\ filter.status = NoStatus \/ p.status = filter.status
    /\ \/ filter.name_filter = NoText
       \/ contains(lower(Letters(filter.name_filter)), lower(Letters(p.name)))

\* get_plans on the one id listed: doc = self.db[doc_id], _dict_to_plan and
\* the filters.  A document that is gone or does not parse raises, which
\* is logged and passed over (except Exception: continue).  The sequence
\* of the plans that remain; the sort by created_at leaves it as it is.
db_get_plans(st, filter) ==
    IF ~st.present THEN <<>>
    ELSE IF ~parses(st.doc) THEN <<>>
    ELSE IF ~passes(dict_to_plan(st.doc), filter) THEN <<>>
    ELSE <<dict_to_plan(st.doc)>>

\* the revision the aggregate was loaded from is kept and sent
save_rev_Loaded(st, req) == req.load_rev

\* the _rev that update_plan sends with its save: the one of the document
\* it has just fetched, not the one the aggregate was loaded from
save_rev(st, req) == st.rev

\* db.save(dict): CouchDB takes the write when _rev is the current revision
\* of a live document, and answers 409 (ResourceConflict) otherwise
\* every write is taken, whatever its _rev and whether or not the document
\* is there
db_accepts_Any(st, rev) == TRUE

db_accepts(st, rev) == st.present /\ st.rev = rev

\* the steps of the stored document that the aggregate does not have are
\* kept behind its own
db_save_Merged(st, p) ==
    [st EXCEPT !.present = TRUE,
               !.doc = plan_to_dict(
                   [p EXCEPT !.steps = @ \o SelectSeq(
                        dict_to_plan(st.doc).steps,
                        LAMBDA t : \A i \in 1..Len(p.steps) :
                                      p.steps[i].step_id # t.step_id)]),
               !.rev = @ + 1]

db_save(st, p) ==
    [st EXCEPT !.present = TRUE, !.doc = plan_to_dict(p), !.rev = @ + 1]

db_delete(st) == [st EXCEPT !.present = FALSE, !.rev = @ + 1]

\* db.delete(doc) on a document that is not there: 404 (ResourceNotFound)
db_missing(st) == ~st.present

(* --------------------------- queries of the Plan ----------------------- *)
\* what get_step and get_progress leave of the plan: both read the steps
\* and assign nothing
after_get_step(p, id) == p

after_get_progress(p) == p

(* ------------------------------- inputs -------------------------------- *)
\* ids a caller can name: every id issued so far, and one that never was
KnownIds == 0..(nextId - 1)
\* dependencies of a request: any strings, here ids issued so far (one
\* dangles once its step is deleted) and the id that never was
DepChoices == {D \in SUBSET KnownIds : Cardinality(D) <= MaxDeps}
OrderChoices == {NoOrder} \cup (1..MaxOrder)
\* a request that appends, and one that inserts in front
EndOrders == {NoOrder, 1}
FrontOrders == {1}
NoDeps == {{}}
\* no dependency, the id that never was, the step added last, or both
DanglingDeps ==
    {{}, {ForeignId}, {nextId - 1}, {ForeignId, nextId - 1}}
\* no dependency, or the step added last
QueryDeps == {{}, {nextId - 1}}
AnyStatus == StepStatus \cup {NoStatus}
NoteChoices == {NoNotes, "n1"}
NoNote == {NoNotes}

\* AddStepRequest: the requests with one description and no notes
Requests(orders, depsets) ==
    {[description |-> "d1", order |-> o, depends_on |-> d, notes |-> NoNotes] :
        o \in orders, d \in depsets}

\* two kinds of request: a bare one that inserts in front, and one that
\* appends, depends on the step added last and carries notes
FrameRequests ==
    {[description |-> "d1", order |-> 1, depends_on |-> {}, notes |-> NoNotes],
     [description |-> "d2", order |-> NoOrder, depends_on |-> {nextId - 1},
      notes |-> "n2"]}

\* the ordering of a plan: its step ids and orders in stored sequence
Ordering(p) ==
    [i \in 1..Len(p.steps) |->
        [step_id |-> p.steps[i].step_id, order |-> p.steps[i].order]]

\* what the last operation was: its name, its result (False is "not found"),
\* the order it was asked for, and the plan's ordering before it ran;
\* whether the step id it was given was the id of a step of the plan;
\* whether it was a reset_steps that came right after a reset_steps, or a
\* get_next_step right after a get_next_step;
\* done, the ids of the steps that an update_step has set to completed since
\* they were created or last reset; and the step requests of a create
Last(op, ok, order, done) ==
    [op |-> op, ok |-> ok, order |-> order, pre |-> Ordering(plan),
     known |-> TRUE,
     again |-> (op \in {"reset_steps", "get_next_step"} /\ last.op = op),
     done |-> done, requests |-> <<>>]

Known(id) == \E i \in 1..Len(plan.steps) : plan.steps[i].step_id = id

(* ------------------------------- actions ------------------------------- *)
NoLast ==
    [op |-> "init", ok |-> TRUE, order |-> NoOrder, pre |-> <<>>,
     known |-> TRUE, again |-> FALSE, done |-> {}, requests |-> <<>>]

\* Time passes: the next utcnow() returns a later reading.  Between two
\* ticks every utcnow() returns the same reading, as calls within one
\* microsecond do.
Tick(limit) ==
    /\ clock < limit
    /\ clock' = clock + 1
    /\ UNCHANGED <<plan, nextId, last, other, store, svc>>

\* the readings a later utcnow() of the same handler can return
Later == clock..MaxClock

\* Plan(name=..., description=..., user_id=...): created_at and updated_at
\* default to utcnow(), one call each: the first returned created, the
\* second updated
NewPlan(created, updated) ==
    [EmptyPlan EXCEPT !.created_at = created, !.updated_at = updated]

\* p when the last self.updated_at = datetime.utcnow() of the handler read
\* the reading updated
StampedAt(p, updated) == [p EXCEPT !.updated_at = updated]

Callers == {"a", "b"}

Idle ==
    [pc |-> "idle", op |-> "none", plan |-> EmptyPlan, new_id |-> ForeignId,
     load_rev |-> 0, fetch_rev |-> 0, rev |-> 0, put_rev |-> 0,
     result |-> "none", requests |-> <<>>, text |-> NoText,
     explicit |-> FALSE, listed |-> <<>>, corrupt |-> FALSE,
     found |-> TRUE, known |-> TRUE, status |-> NoStatus,
     skipped |-> FALSE, loaded |-> EmptyPlan]

\* a Plan has been constructed, at the first reading of the clock; the
\* clock stands at the reading its updated_at took
Init ==
    /\ clock \in 0..MaxClock
    /\ plan = NewPlan(0, clock)
    /\ nextId = 1
    /\ last = NoLast
    /\ other = EmptyPlan
    /\ store = NoStore
    /\ svc = [w \in Callers |-> Idle]

\* plan.add_step(description, order, depends_on, notes); uuid4 gives the
\* next id
add_step_call(requests, maxSteps, maxIds) ==
    \E r \in requests :
        /\ nextId <= maxIds
        /\ Len(plan.steps) < maxSteps
        /\ plan' = add_step(plan, nextId, r.description, r.order,
                            r.depends_on, r.notes)
        /\ nextId' = nextId + 1
        /\ last' = Last("add_step", TRUE, r.order, last.done)

\* plan.update_step(step_id, status, notes)
update_step_call(statuses, notes) ==
    \E id \in KnownIds, status \in statuses, n \in notes :
        /\ plan' = update_step(plan, id, status, n)
        /\ last' = [Last("update_step", update_step_ok(plan, id), NoOrder,
                         IF Known(id) /\ status = "completed"
                         THEN last.done \cup {id} ELSE last.done)
                        EXCEPT !.known = Known(id)]
        /\ UNCHANGED nextId

\* plan.update_step(step_id, status, notes), with the arguments of the call
\* kept in last.requests
update_step_noted(statuses, notes) ==
    \E id \in KnownIds, status \in statuses, n \in notes :
        /\ plan' = update_step(plan, id, status, n)
        /\ last' = [Last("update_step", update_step_ok(plan, id), NoOrder,
                         IF Known(id) /\ status = "completed"
                         THEN last.done \cup {id} ELSE last.done)
                        EXCEPT !.known = Known(id),
                               !.requests = <<[step_id |-> id,
                                               status |-> status,
                                               notes |-> n]>>]
        /\ UNCHANGED nextId

\* plan.delete_step(step_id)
delete_step_call ==
    \E id \in KnownIds :
        /\ plan' = delete_step(plan, id)
        /\ last' = [Last("delete_step", delete_step_ok(plan, id), NoOrder,
                         last.done \ {id})
                        EXCEPT !.known = Known(id)]
        /\ UNCHANGED nextId

\* plan.reset_steps()
reset_steps_call ==
    /\ plan' = reset_steps(plan)
    /\ last' = Last("reset_steps", TRUE, NoOrder, {})
    /\ UNCHANGED nextId

AddStep(orders, depsets, maxSteps, maxIds) ==
    /\ add_step_call(Requests(orders, depsets), maxSteps, maxIds)
    /\ UNCHANGED <<other, store, svc, clock>>

UpdateStep(statuses) ==
    /\ update_step_call(statuses, NoNote)
    /\ UNCHANGED <<other, store, svc, clock>>

DeleteStep == delete_step_call /\ UNCHANGED <<other, store, svc, clock>>

ResetSteps == reset_steps_call /\ UNCHANGED <<other, store, svc, clock>>

\* plan.get_next_step(); last.requests holds what it returned, the step or
\* nothing
get_next_step_call ==
    /\ plan' = after_get_next_step(plan)
    /\ last' = [Last("get_next_step", get_next_step(plan) # <<>>, NoOrder,
                     last.done)
                    EXCEPT !.requests = get_next_step(plan)]
    /\ UNCHANGED nextId

GetNextStep == get_next_step_call /\ UNCHANGED <<other, store, svc, clock>>

\* plan.get_step(step_id); last.requests holds what it returned
get_step_call ==
    \E id \in KnownIds :
        /\ plan' = after_get_step(plan, id)
        /\ last' = [Last("get_step", get_step(plan, id) # <<>>, NoOrder,
                         last.done)
                        EXCEPT !.known = Known(id),
                               !.requests = get_step(plan, id)]
        /\ UNCHANGED nextId

GetStep == get_step_call /\ UNCHANGED <<other, store, svc, clock>>

\* plan.get_progress(); last.requests holds the statistics
get_progress_call ==
    /\ plan' = after_get_progress(plan)
    /\ last' = [Last("get_progress", TRUE, NoOrder, last.done)
                    EXCEPT !.requests = <<get_progress(plan)>>]
    /\ UNCHANGED nextId

GetProgress == get_progress_call /\ UNCHANGED <<other, store, svc, clock>>

(* The aggregate under every status: requests append or insert in front,   *)
(* carry no dependencies, and set any of the five statuses.                 *)
Next ==
    \/ Tick(MaxClock)
    \/ AddStep(EndOrders, NoDeps, MaxSteps, MaxSteps)
    \/ UpdateStep(AnyStatus)
    \/ DeleteStep
    \/ ResetSteps

Spec == Init /\ [][Next]_vars

(* The aggregate under every requested order: requests carry any order in  *)
(* 1..MaxOrder or none, no dependencies, and complete steps.                *)
NextOrder ==
    \/ Tick(MaxClock)
    \/ AddStep(OrderChoices, NoDeps, MaxOrdSteps, MaxOrdIds)
    \/ UpdateStep({"completed", NoStatus})
    \/ DeleteStep
    \/ ResetSteps

SpecOrder == Init /\ [][NextOrder]_vars

(* The aggregate under dependencies: requests insert in front, so that a  *)
(* step can depend on a step of larger order, carry any set of at most     *)
(* MaxDeps ids, issued or not, and start or complete steps.                *)
NextDeps ==
    \/ Tick(MaxClock)
    \/ AddStep(FrontOrders, DepChoices, MaxSteps, MaxSteps)
    \/ UpdateStep({"completed", "in_progress", NoStatus})
    \/ DeleteStep
    \/ ResetSteps

SpecDeps == Init /\ [][NextDeps]_vars

(* The aggregate under dependencies that match no step: requests append    *)
(* and depend on nothing, on the id that never was, on the step added      *)
(* last, or on both; steps are completed, deleted and reset, and steps     *)
(* are still added after a step has been deleted.                          *)
NextDangling ==
    \/ Tick(MaxClock)
    \/ AddStep({NoOrder}, DanglingDeps, MaxDangSteps, MaxDepIds)
    \/ UpdateStep({"completed"})
    \/ DeleteStep
    \/ ResetSteps

SpecDangling == Init /\ [][NextDangling]_vars

(* The aggregate under descriptions and notes: requests append or insert   *)
(* in front with one of two descriptions, complete steps or give them      *)
(* notes, and other keeps the plan as it was before the call.              *)
NextFrame ==
    \/ Tick(MaxClock)
    \/ /\ \/ add_step_call(FrameRequests, MaxFrameSteps, MaxFrameSteps)
          \/ update_step_noted({"completed", NoStatus}, NoteChoices)
          \/ delete_step_call
          \/ reset_steps_call
       /\ other' = plan
       /\ UNCHANGED <<store, svc, clock>>

SpecFrame == Init /\ [][NextFrame]_vars

(* The aggregate under status updates: steps are appended, each          *)
(* depending on the step added before it (the first on an id of no step),  *)
(* and given any of the five statuses in any sequence.                     *)
NextUpdate ==
    \/ Tick(MaxClock)
    \/ /\ \/ add_step_call(Requests({NoOrder}, {{nextId - 1}}),
                           MaxUpdSteps, MaxUpdSteps)
          \/ update_step_noted(StepStatus, NoNote)
       /\ UNCHANGED <<other, store, svc, clock>>

SpecUpdate == Init /\ [][NextUpdate]_vars

(* The methods of Step called on a step of the plan, not through the      *)
(* plan: no method of the plan runs, so the plan's status and updated_at   *)
(* stay as they are.  No service calls them this way; update_status is    *)
(* what Plan.update_step calls, and mark_completed has no caller.          *)
\* plan.steps[k].mark_completed()
mark_completed_call ==
    \E k \in 1..Len(plan.steps) :
        /\ plan' = [plan EXCEPT !.steps[k] = mark_completed(@)]
        /\ last' = Last("mark_completed", TRUE, NoOrder,
                        last.done \cup {plan.steps[k].step_id})
        /\ UNCHANGED <<nextId, other, store, svc, clock>>

\* plan.steps[k].update_status(status, notes)
update_status_call(statuses, notes) ==
    \E k \in 1..Len(plan.steps), status \in statuses, n \in notes :
        /\ plan' = [plan EXCEPT !.steps[k] = update_status(@, status, n)]
        /\ last' = Last("update_status", TRUE, NoOrder,
                        IF status = "completed"
                        THEN last.done \cup {plan.steps[k].step_id}
                        ELSE last.done)
        /\ UNCHANGED <<nextId, other, store, svc, clock>>

NextStep ==
    \/ Tick(MaxClock)
    \/ AddStep({NoOrder}, NoDeps, MaxUpdSteps, MaxUpdSteps)
    \/ UpdateStep({"completed"})
    \/ mark_completed_call
    \/ update_status_call({"in_progress", "completed", "failed"}, NoNote)

SpecStep == Init /\ [][NextStep]_vars

\* a step completed by its own method leaves the status of the plan behind
StepCallSkipsDerivation ==
    /\ last.op = "mark_completed"
    /\ Len(plan.steps) = 1
    /\ plan.steps[1].status = "completed"
    /\ plan.status = "not_started"
    /\ plan.updated_at = 0 /\ clock = 1

(* The aggregate under its queries: steps are added at the end or in      *)
(* front, completed and deleted, and between these calls a step, the next  *)
(* step and the progress are asked for.                                    *)
NextQuery ==
    \/ Tick(MaxClock)
    \/ AddStep(EndOrders, QueryDeps, MaxQuerySteps, MaxQuerySteps)
    \/ UpdateStep({"completed"})
    \/ DeleteStep
    \/ GetStep
    \/ GetNextStep
    \/ GetProgress

SpecQuery == Init /\ [][NextQuery]_vars

(* Plans with any dependencies among their steps, as _dict_to_plan builds  *)
(* them from a document: depends_on is taken as stored, so a step can name *)
(* itself and steps can name each other.  Steps are completed, reset and   *)
(* the next step is asked for.                                             *)
CyclePlans ==
    UNION {{[EmptyPlan EXCEPT !.steps =
                [i \in 1..n |-> Step(i, i, "d1", deps[i], NoNotes)]] :
            deps \in [1..n -> SUBSET (1..n)]} :
           n \in 1..MaxCycleSteps}

InitCycle ==
    /\ plan \in CyclePlans
    /\ nextId = Len(plan.steps) + 1
    /\ last = [NoLast EXCEPT !.op = "drawn"]
    /\ other = EmptyPlan
    /\ store = NoStore
    /\ svc = [w \in Callers |-> Idle]
    /\ clock = 0

NextCycle ==
    \/ Tick(MaxClock)
    \/ UpdateStep({"completed"})
    \/ ResetSteps
    \/ GetNextStep

SpecCycle == InitCycle /\ [][NextCycle]_vars

(* A caller works a plan off: it asks for the next step, marks the step   *)
(* it was given as completed, and asks again, until it is given none.  The *)
(* plans are those with pending and completed steps whose dependencies are *)
(* steps of the plan and have no cycle; the orders are 1..N in any         *)
(* sequence, and a step of a smaller order may depend on one of a larger;  *)
(* the plan status is the derived one, or one set by a metadata update.    *)
RECURSIVE ReachDeps(_, _, _)
ReachDeps(deps, S, k) ==
    IF k = 0 THEN {}
    ELSE UNION {deps[i] : i \in S}
            \cup ReachDeps(deps, UNION {deps[i] : i \in S}, k - 1)

Acyclic(deps) ==
    \A i \in DOMAIN deps : i \notin ReachDeps(deps, {i}, Len(deps))

RunPlans ==
    UNION {{[EmptyPlan EXCEPT
                !.steps = [i \in 1..n |->
                              update_status(
                                  Step(i, orders[i], "d1", deps[i], NoNotes),
                                  statuses[i], NoNotes)],
                !.status = IF explicit THEN "paused"
                           ELSE DeriveStatus(
                                    [i \in 1..n |-> [status |-> statuses[i]]])] :
            deps \in {d \in [1..n -> SUBSET (1..n)] : Acyclic(d)},
            statuses \in [1..n -> {"pending", "completed"}],
            orders \in {o \in [1..n -> 1..n] :
                           \A i, j \in 1..n : i # j => o[i] # o[j]},
            explicit \in BOOLEAN} :
           n \in 0..MaxRunSteps}

InitRun ==
    /\ plan \in RunPlans
    /\ nextId = Len(plan.steps) + 1
    /\ last = [NoLast EXCEPT !.op = "drawn"]
    /\ other = EmptyPlan
    /\ store = NoStore
    /\ svc = [w \in Callers |-> Idle]
    /\ clock = 0

\* the caller asks for the next step
AskNext ==
    /\ last.op # "get_next_step"
    /\ GetNextStep

\* the caller marks the step it was given as completed
CompleteReturned ==
    /\ last.op = "get_next_step"
    /\ last.requests # <<>>
    /\ plan' = update_step(plan, last.requests[1].step_id, "completed",
                           NoNotes)
    /\ last' = Last("update_step",
                    update_step_ok(plan, last.requests[1].step_id), NoOrder,
                    last.done \cup {last.requests[1].step_id})
    /\ UNCHANGED <<nextId, other, store, svc, clock>>

NextRun == Tick(MaxClock) \/ AskNext \/ CompleteReturned

\* the caller is a loop that nothing holds up: each of its two calls is
\* made when it is due
SpecRun ==
    /\ InitRun
    /\ [][NextRun]_vars
    /\ WF_vars(AskNext)
    /\ WF_vars(CompleteReturned)

(* The status derivation as a function: two plans are drawn, each with    *)
(* up to MaxSteps steps of any statuses, and the derivation runs on both.   *)
StatusSeqs == UNION {[1..n -> StepStatus] : n \in 0..MaxSteps}

\* the status before the derivation: as created, or set by a metadata update
PriorStatuses == {"not_started", "paused"}

\* a plan whose steps were added in sequence and then given these statuses
PlanOf(statuses, prior) ==
    [steps |-> [i \in 1..Len(statuses) |->
                    update_status(Step(i, i, "d1", {}, NoNotes),
                                  statuses[i], NoNotes)],
     status |-> prior, description |-> PlanText, updated_at |-> 0,
     plan_id |-> PlanId, name |-> PlanName, user_id |-> UserId,
     created_at |-> 0]

InitDerive ==
    /\ \E s1, s2 \in StatusSeqs, p1, p2 \in PriorStatuses :
          /\ plan = PlanOf(s1, p1)
          /\ other = PlanOf(s2, p2)
    /\ nextId = 1
    /\ last = [NoLast EXCEPT !.op = "drawn"]
    /\ store = NoStore
    /\ svc = [w \in Callers |-> Idle]
    /\ clock = 0

\* self._update_plan_status() on each of the two plans
Derive ==
    /\ last.op = "drawn"
    /\ plan' = update_plan_status(plan)
    /\ other' = update_plan_status(other)
    /\ last' = [last EXCEPT !.op = "derive"]
    /\ UNCHANGED <<nextId, store, svc, clock>>

NextDerive == Tick(MaxClock) \/ Derive

SpecDerive == InitDerive /\ [][NextDerive]_vars

(* ------------------------- services (src/services.py) ------------------ *)
(* Each caller runs one request.  A request is a sequence of database      *)
(* calls; the calls of two requests interleave, and what a request does in *)
(* memory between two calls is part of the step that made the first call.  *)
(* pc: "idle" -> "fetch" -> "save" -> "done" for a load -> mutate -> save   *)
(* cycle, "idle" -> "delete" -> "done" for delete_plan.  result is "true"   *)
(* (True, the plan, or the new step id in new_id), "false" (False or None)  *)
(* or "raised" (an exception left the service).  plan is the aggregate in   *)
(* memory and rev the _rev sent with the save; requests and text are the   *)
(* step requests and the description a regenerate or a metadata update was *)
(* given, and new_id the first step id the request was issued.  load_rev,  *)
(* fetch_rev and put_rev record the store's revision when the request      *)
(* loaded the plan, fetched the document again and sent its write, and     *)
(* explicit whether the status of plan was set by a metadata update with   *)
(* no step mutation since (history).                                       *)
SvcStatuses == {"completed", "skipped"}

\* the step requests of a create: each with an order or none
CreateRequests == UNION {[1..n -> EndOrders] : n \in 1..MaxSteps}

\* the step requests of a create: at most max, every order omitted
OmittedOrders(max) == {[i \in 1..n |-> NoOrder] : n \in 1..max}

\* CreateStepRequest: the requests of these orders, each with the default
\* depends_on
StepRequests(orders) ==
    [i \in 1..Len(orders) |-> [order |-> orders[i], depends_on |-> {}]]

\* the loop of create_plan_with_steps and of regenerate_plan:
\* order = request.order or i + 1, depends_on = request.depends_on
RECURSIVE add_requests(_, _, _, _)
add_requests(p, reqs, i, id) ==
    IF i > Len(reqs) THEN p
    ELSE add_requests(
            add_step(p, id, "d1",
                     IF reqs[i].order # NoOrder THEN reqs[i].order ELSE i,
                     reqs[i].depends_on, NoNotes),
            reqs, i + 1, id + 1)

\* PlanningService.create_plan_with_steps, and db.create_plan; the plan_id
\* is new, so the document is created once.  plan is the Plan returned.
\* created_at is the first reading of the handler; updated_at is its last,
\* taken by the last add_step (by Plan(...) when there is no step).
CreatePlan(requests) ==
    \E reqs \in requests, updated \in Later :
        /\ store.rev = 0
        /\ plan' = StampedAt(add_requests(NewPlan(utcnow, utcnow),
                                          StepRequests(reqs), 1, nextId),
                             updated)
        /\ store' = db_save(store, plan')
        /\ nextId' = nextId + Len(reqs)
        /\ clock' = updated
        /\ last' = [NoLast EXCEPT !.op = "create_plan_with_steps",
                                  !.requests = reqs]
        /\ UNCHANGED <<other, svc>>

\* found is history: the plan was stored when the request read it
Done(req, op, result) ==
    [req EXCEPT !.pc = "done", !.op = op, !.result = result,
                !.found = store.present]

\* the request holds the mutated aggregate p and goes on to save it
Loaded(req, op, p) ==
    [req EXCEPT !.pc = "fetch", !.op = op, !.plan = p, !.load_rev = store.rev,
                !.explicit = FALSE, !.found = store.present]

\* history: the stored plan has a step of this id
InStore(id) ==
    /\ store.present
    /\ \E i \in 1..Len(store.doc.steps) : store.doc.steps[i].step_id = id

\* ExecutionService.update_step_status (skip_step with status skipped), up
\* to its call of db_connection.update_plan
UpdateStepStatus(w) ==
    \E id \in KnownIds, status \in SvcStatuses :
        /\ svc[w].pc = "idle"
        /\ store.rev > 0
        /\ svc' = [svc EXCEPT ![w] =
              IF db_get_plan(store) = <<>>
              THEN Done(@, "update_step_status", "false")
              ELSE IF ~update_step_ok(db_get_plan(store)[1], id)
              THEN Done(@, "update_step_status", "false")
              ELSE Loaded(@, "update_step_status",
                          update_step(db_get_plan(store)[1], id, status,
                                      NoNotes)),
                          ![w].known = InStore(id)]
        /\ UNCHANGED <<plan, nextId, last, other, store, clock>>

\* ManagementService.delete_step_from_plan, up to its call of update_plan
DeleteStepFromPlan(w) ==
    \E id \in KnownIds :
        /\ svc[w].pc = "idle"
        /\ store.rev > 0
        /\ svc' = [svc EXCEPT ![w] =
              IF db_get_plan(store) = <<>>
              THEN Done(@, "delete_step_from_plan", "false")
              ELSE IF ~delete_step_ok(db_get_plan(store)[1], id)
              THEN Done(@, "delete_step_from_plan", "false")
              ELSE Loaded(@, "delete_step_from_plan",
                          delete_step(db_get_plan(store)[1], id)),
                          ![w].known = InStore(id)]
        /\ UNCHANGED <<plan, nextId, last, other, store, clock>>

\* ManagementService.add_step_to_plan, up to its call of update_plan
AddStepToPlan(w) ==
    \E order \in EndOrders :
        /\ svc[w].pc = "idle"
        /\ store.rev > 0
        /\ svc' = [svc EXCEPT ![w] =
              IF db_get_plan(store) = <<>>
              THEN Done(@, "add_step_to_plan", "false")
              ELSE [Loaded(@, "add_step_to_plan",
                           add_step(db_get_plan(store)[1], nextId, "d1", order,
                                    {}, NoNotes))
                        EXCEPT !.new_id = nextId]]
        /\ nextId' = IF db_get_plan(store) = <<>> THEN nextId ELSE nextId + 1
        /\ UNCHANGED <<plan, last, other, store, clock>>

\* DatabaseConnection.update_plan, first call: doc = self.db[plan.plan_id].
\* On ResourceNotFound update_plan returns False, which the services drop:
\* they return their success value.
UpdatePlanFetch(w) ==
    /\ svc[w].pc = "fetch"
    /\ svc' = [svc EXCEPT ![w] =
          IF store.present
          THEN [@ EXCEPT !.pc = "save", !.rev = save_rev(store, svc[w]),
                         !.fetch_rev = store.rev]
          ELSE [@ EXCEPT !.pc = "done", !.result = "true"]]
    /\ UNCHANGED <<plan, nextId, last, other, store, clock>>

\* DatabaseConnection.update_plan, second call: self.db.save(updated_dict).
\* A ResourceConflict is re-raised by update_plan and by the service.
UpdatePlanSave(w) ==
    /\ svc[w].pc = "save"
    /\ store' = IF db_accepts(store, svc[w].rev)
                THEN [db_save(store, svc[w].plan)
                          EXCEPT !.explicit = svc[w].explicit]
                ELSE store
    /\ svc' = [svc EXCEPT ![w] =
          [@ EXCEPT !.pc = "done", !.put_rev = store.rev,
                    !.result = IF db_accepts(store, svc[w].rev)
                               THEN "true" ELSE "raised"]]
    /\ UNCHANGED <<plan, nextId, last, other, clock>>

\* ManagementService.delete_plan, and DatabaseConnection.delete_plan up to
\* doc = self.db[plan_id]
DeletePlan(w) ==
    /\ svc[w].pc = "idle"
    /\ store.rev > 0
    /\ svc' = [svc EXCEPT ![w] =
          IF store.present
          THEN [@ EXCEPT !.pc = "delete", !.op = "delete_plan",
                         !.rev = store.rev, !.fetch_rev = store.rev]
          ELSE Done(@, "delete_plan", "false")]
    /\ UNCHANGED <<plan, nextId, last, other, store, clock>>

\* DatabaseConnection.delete_plan: self.db.delete(doc).  The store looks
\* the document up before it compares revisions: for a document already
\* deleted it answers 404 (ResourceNotFound), which delete_plan turns into
\* False; a ResourceConflict is re-raised.
DeletePlanDelete(w) ==
    /\ svc[w].pc = "delete"
    /\ store' = IF db_accepts(store, svc[w].rev) THEN db_delete(store) ELSE store
    /\ svc' = [svc EXCEPT ![w] =
          [@ EXCEPT !.pc = "done", !.put_rev = store.rev,
                    !.result = IF db_accepts(store, svc[w].rev) THEN "true"
                               ELSE IF db_missing(store) THEN "false"
                               ELSE "raised"]]
    /\ UNCHANGED <<plan, nextId, last, other, clock>>

(* ------------------------- managing a stored plan ---------------------- *)
\* the step requests of a create: the order of the i-th is omitted, i, or 1
MgmtRequests ==
    UNION {{r \in [1..n -> {NoOrder} \cup (1..n)] :
                \A i \in 1..n : r[i] \in {NoOrder, 1, i}} :
           n \in 1..MaxMgmtSteps}

\* the step requests of a regenerate: every order omitted, or the order of
\* the i-th given as i
RegenRequests ==
    UNION {{[i \in 1..n |-> NoOrder], [i \in 1..n |-> i]} :
           n \in 1..MaxMgmtSteps}

\* RegeneratePlanRequest.description, UpdatePlanRequest.description
TextChoices == {NoText, "new"}
\* UpdatePlanRequest.status
MetaStatuses == {NoStatus, "paused"}

\* the new steps are added behind the loaded ones
regenerate_plan_Appending(p, text, reqs, id) ==
    [add_requests([p EXCEPT !.description = IF text # NoText THEN text ELSE @,
                            !.updated_at = utcnow],
                  reqs, 1, id)
        EXCEPT !.status = "not_started"]

\* the plan status is put back to what was loaded
regenerate_plan_StatusKept(p, text, reqs, id) ==
    [add_requests([p EXCEPT !.description = IF text # NoText THEN text ELSE @,
                            !.updated_at = utcnow,
                            !.steps = <<>>],
                  reqs, 1, id)
        EXCEPT !.status = p.status]

\* the steps are added to a Plan newly constructed
regenerate_plan_Recreated(p, text, reqs, id) ==
    [add_requests([EmptyPlan EXCEPT
                        !.description = IF text # NoText THEN text
                                        ELSE p.description,
                        !.updated_at = utcnow],
                  reqs, 1, id)
        EXCEPT !.status = "not_started"]

\* PlanningService.regenerate_plan, between get_plan and update_plan
regenerate_plan(p, text, reqs, id) ==
    [add_requests([p EXCEPT !.description = IF text # NoText THEN text ELSE @,
                            !.updated_at = utcnow,
                            !.steps = <<>>],
                  reqs, 1, id)
        EXCEPT !.status = "not_started"]

\* ManagementService.update_plan_metadata, between get_plan and update_plan
update_plan_metadata(p, name, text, status) ==
    [p EXCEPT !.name = IF name # NoName THEN name ELSE @,
              !.description = IF text # NoText THEN text ELSE @,
              !.status = IF status # NoStatus THEN status ELSE @,
              !.updated_at = utcnow]

\* the orders of step requests, in request sequence
RequestOrders(reqs) == [i \in 1..Len(reqs) |-> reqs[i].order]

\* PlanningService.regenerate_plan, up to its call of update_plan, with
\* new_steps one of requests and new_description one of texts.  requests
\* keeps the orders asked for, and loaded (history, kept when remember) the
\* plan that get_plan returned.
RegeneratePlanOf(w, requests, texts, remember) ==
    \E reqs \in requests, text \in texts :
        /\ svc[w].pc = "idle"
        /\ store.rev > 0
        /\ svc' = [svc EXCEPT ![w] =
              IF db_get_plan(store) = <<>>
              THEN Done(@, "regenerate_plan", "false")
              ELSE [Loaded(@, "regenerate_plan",
                           regenerate_plan(db_get_plan(store)[1], text,
                                           reqs, nextId))
                        EXCEPT !.new_id = nextId,
                               !.requests = RequestOrders(reqs),
                               !.text = text,
                               !.loaded = IF remember
                                          THEN db_get_plan(store)[1]
                                          ELSE @]]
        /\ nextId' = IF db_get_plan(store) = <<>> THEN nextId
                      ELSE nextId + Len(reqs)
        /\ UNCHANGED <<plan, last, other, store, clock>>

\* regenerate_plan with requests that carry an order or none and the
\* default depends_on
RegeneratePlan(w) ==
    RegeneratePlanOf(w, {StepRequests(orders) : orders \in RegenRequests},
                     TextChoices, FALSE)

\* ManagementService.update_plan_metadata, up to its call of update_plan,
\* with a name, a description and a status out of those given
UpdatePlanMetadataOf(w, names, texts, statuses) ==
    \E name \in names, text \in texts, status \in statuses :
        /\ svc[w].pc = "idle"
        /\ store.rev > 0
        /\ svc' = [svc EXCEPT ![w] =
              IF db_get_plan(store) = <<>>
              THEN Done(@, "update_plan_metadata", "false")
              ELSE [Loaded(@, "update_plan_metadata",
                           update_plan_metadata(db_get_plan(store)[1], name,
                                                text, status))
                        EXCEPT !.text = text, !.status = status,
                               !.explicit = IF status # NoStatus THEN TRUE
                                            ELSE store.explicit]]
        /\ UNCHANGED <<plan, nextId, last, other, store, clock>>

\* update_plan_metadata that leaves the name
UpdatePlanMetadata(w) ==
    UpdatePlanMetadataOf(w, {NoName}, TextChoices, MetaStatuses)

\* ManagementService.reset_plan_steps, up to its call of update_plan
ResetPlanSteps(w) ==
    /\ svc[w].pc = "idle"
    /\ store.rev > 0
    /\ svc' = [svc EXCEPT ![w] =
          IF db_get_plan(store) = <<>>
          THEN Done(@, "reset_plan_steps", "false")
          ELSE Loaded(@, "reset_plan_steps", reset_steps(db_get_plan(store)[1]))]
    /\ UNCHANGED <<plan, nextId, last, other, store, clock>>

\* ExecutionService.get_plan
GetPlan(w) ==
    /\ svc[w].pc = "idle"
    /\ store.rev > 0
    /\ svc' = [svc EXCEPT ![w] =
          IF db_get_plan(store) = <<>>
          THEN Done(@, "get_plan", "false")
          ELSE IF db_get_plan_raises(store)
          THEN [Done(@, "get_plan", "raised") EXCEPT !.corrupt = TRUE]
          ELSE [Done(@, "get_plan", "true")
                    EXCEPT !.plan = db_get_plan(store)[1],
                           !.load_rev = store.rev]]
    /\ UNCHANGED <<plan, nextId, last, other, store, clock>>

\* the filters of a listing: none, or one of a user, a status and a name
\* filter
NoFilter == [user_id |-> NoUser, status |-> NoStatus, name_filter |-> NoText]
ListFilters ==
    {NoFilter}
    \cup {[NoFilter EXCEPT !.user_id = u] : u \in {UserId, "u2"}}
    \cup {[NoFilter EXCEPT !.status = st] : st \in {"not_started", "completed"}}
    \cup {[NoFilter EXCEPT !.name_filter = nf] : nf \in {"NAME", "Ren"}}

\* a status of no member of PlanStatus
UnknownStatus == "archived"

\* The database holds a document that this program did not write and cannot
\* parse: the stored plan with a status that PlanStatus does not have.
CorruptDocument ==
    /\ store.present
    /\ parses(store.doc)
    /\ store' = [store EXCEPT !.doc.status = UnknownStatus, !.rev = @ + 1]
    /\ UNCHANGED <<plan, nextId, last, other, svc, clock>>

\* ExecutionService.get_plans, and db.get_plans up to `for doc_id in
\* self.db`: with no id listed it returns the empty list, with the id it
\* goes on to read the document.  requests holds the filter.
GetPlans(w) ==
    \E filter \in ListFilters :
        /\ svc[w].pc = "idle"
        /\ svc' = [svc EXCEPT ![w] =
              IF db_ids(store) = {}
              THEN [Done(@, "get_plans", "true")
                        EXCEPT !.requests = <<filter>>]
              ELSE [@ EXCEPT !.pc = "list", !.op = "get_plans",
                             !.requests = <<filter>>,
                             !.load_rev = store.rev,
                             !.found = store.present]]
        /\ UNCHANGED <<plan, nextId, last, other, store, clock>>

\* db.get_plans on the id listed: doc = self.db[doc_id] and what follows.
\* skipped and corrupt are history: the document raised and was passed
\* over, and it was there and did not parse.
GetPlansRead(w) ==
    /\ svc[w].pc = "list"
    /\ svc' = [svc EXCEPT ![w] =
          [Done(@, "get_plans", "true")
              EXCEPT !.listed = db_get_plans(store, svc[w].requests[1]),
                     !.fetch_rev = store.rev,
                     !.skipped = ~store.present \/ db_get_plan_raises(store),
                     !.corrupt = db_get_plan_raises(store)]]
    /\ UNCHANGED <<plan, nextId, last, other, store, clock>>

(* A stored plan under management: it is created, and each caller        *)
(* regenerates it, resets it, updates its metadata or the status of a      *)
(* step.                                                                   *)
NextMgmt ==
    \/ Tick(MaxClock)
    \/ CreatePlan(OmittedOrders(MaxMgmtSteps))
    \/ \E w \in Callers :
          \/ UpdateStepStatus(w)
          \/ RegeneratePlan(w)
          \/ UpdatePlanMetadata(w)
          \/ ResetPlanSteps(w)
          \/ UpdatePlanFetch(w)
          \/ UpdatePlanSave(w)

SpecMgmt == Init /\ [][NextMgmt]_vars

(* A plan is created from step requests of any orders, and each caller    *)
(* reads it or updates the status of a step.                               *)
NextCreate ==
    \/ Tick(MaxClock)
    \/ CreatePlan(MgmtRequests)
    \/ \E w \in Callers :
          \/ GetPlan(w)
          \/ UpdateStepStatus(w)
          \/ UpdatePlanFetch(w)
          \/ UpdatePlanSave(w)

SpecCreate == Init /\ [][NextCreate]_vars

(* Two callers, each with one request on one stored plan: step updates,    *)
(* step additions and deletion of the plan.                                *)
NextSvc ==
    \/ Tick(MaxClock)
    \/ CreatePlan(CreateRequests)
    \/ \E w \in Callers :
          \/ UpdateStepStatus(w)
          \/ AddStepToPlan(w)
          \/ UpdatePlanFetch(w)
          \/ UpdatePlanSave(w)
          \/ DeletePlan(w)
          \/ DeletePlanDelete(w)

SpecSvc == Init /\ [][NextSvc]_vars

(* Reads of a stored plan that another writer may have left unparsable:   *)
(* each caller loads it by id, lists the plans or deletes the plan.        *)
NextRead ==
    \/ Tick(MaxClock)
    \/ CreatePlan(CreateRequests)
    \/ CorruptDocument
    \/ \E w \in Callers :
          \/ GetPlan(w)
          \/ GetPlans(w)
          \/ GetPlansRead(w)
          \/ DeletePlan(w)
          \/ DeletePlanDelete(w)

SpecRead == Init /\ [][NextRead]_vars

(* Every mutation of the services on a plan that a third caller may have  *)
(* deleted, and on step ids that the plan may not have; a regenerate asks  *)
(* for one step, a metadata update gives a description.                    *)
Deleter == "c"

InitNotFound ==
    /\ clock \in 0..MaxClock
    /\ plan = NewPlan(0, clock)
    /\ nextId = 1
    /\ last = NoLast
    /\ other = EmptyPlan
    /\ store = NoStore
    /\ svc = [w \in Callers \cup {Deleter} |-> Idle]

NextNotFound ==
    \/ Tick(MaxClock)
    \/ CreatePlan(OmittedOrders(MaxGoneSteps))
    \/ \E w \in Callers :
          \/ UpdateStepStatus(w)
          \/ AddStepToPlan(w)
          \/ DeleteStepFromPlan(w)
          \/ ResetPlanSteps(w)
          \/ UpdatePlanMetadataOf(w, {NoName}, {"new"}, {NoStatus})
          \/ RegeneratePlanOf(w, {StepRequests(<<NoOrder>>)}, {NoText},
                              FALSE)
          \/ UpdatePlanFetch(w)
          \/ UpdatePlanSave(w)
    \/ DeletePlan(Deleter)
    \/ DeletePlanDelete(Deleter)

SpecNotFound == InitNotFound /\ [][NextNotFound]_vars

(* Two callers, each with one load -> mutate -> save cycle of any kind on  *)
(* one stored plan.                                                        *)
NextSave ==
    \/ Tick(MaxClock)
    \/ CreatePlan(OmittedOrders(MaxGoneSteps))
    \/ \E w \in Callers :
          \/ UpdateStepStatus(w)
          \/ AddStepToPlan(w)
          \/ DeleteStepFromPlan(w)
          \/ ResetPlanSteps(w)
          \/ UpdatePlanMetadata(w)
          \/ RegeneratePlan(w)
          \/ UpdatePlanFetch(w)
          \/ UpdatePlanSave(w)

SpecSave == Init /\ [][NextSave]_vars

(* ======================= properties of the aggregate =================== *)
Orders(p) == {p.steps[i].order : i \in 1..Len(p.steps)}
Ids(p) == {p.steps[i].step_id : i \in 1..Len(p.steps)}
\* the order of the step carrying id, in a plan and in a recorded ordering
OrderOf(p, id) == get_step(p, id)[1].order
PreIds == {last.pre[i].step_id : i \in 1..Len(last.pre)}
PreOrders == {last.pre[i].order : i \in 1..Len(last.pre)}
PreOrderOf(id) ==
    last.pre[CHOOSE i \in 1..Len(last.pre) : last.pre[i].step_id = id].order
\* exactly one step carries each of the orders 1..N, and no step another
Contiguous(p) ==
    /\ \A k \in 1..Len(p.steps) :
          Cardinality({i \in 1..Len(p.steps) : p.steps[i].order = k}) = 1
    /\ \A i \in 1..Len(p.steps) : p.steps[i].order \in 1..Len(p.steps)
Ascending(p) ==
    \A i, j \in 1..Len(p.steps) : i < j => p.steps[i].order < p.steps[j].order

\* C1: after any add_step or delete_step the multiset of step orders is
\* exactly {1, ..., N}, N the step count.  The code breaks it: add_step
\* takes any order >= 1 and never clamps it to N + 1.
C1_OrdersAreOneToN ==
    (last.op \in {"add_step", "delete_step"} /\ last.ok) => Contiguous(plan)

\* C2: after any mutation the stored sequence of steps is strictly
\* ascending in order.  The code breaks it: add_step puts the new step behind
\* the step that holds the requested order, and then shifts that step up.
C2_StoredSequenceAscending ==
    (last.op \in {"add_step", "update_step", "delete_step", "reset_steps"}
        /\ last.ok) => Ascending(plan)

\* C8: after a successful delete_step the remaining steps are the previous
\* ones but one, their orders are exactly 1..N, and two remaining steps keep
\* the relative order they had, whatever gaps the orders had before.
C8_DeleteRenumbers ==
    (last.op = "delete_step" /\ last.ok) =>
        /\ Len(plan.steps) = Len(last.pre) - 1
        /\ Ids(plan) \subseteq PreIds
        /\ Cardinality(Ids(plan)) = Len(plan.steps)
        /\ Contiguous(plan)
        /\ \A a, b \in Ids(plan) :
              PreOrderOf(a) < PreOrderOf(b) => OrderOf(plan, a) < OrderOf(plan, b)

\* a delete_step ran on a plan whose orders had a gap and whose stored
\* sequence was not ascending, and left at least two steps
C8_Witness ==
    /\ last.op = "delete_step" /\ last.ok
    /\ Len(plan.steps) >= 2
    /\ PreOrders # 1..Len(last.pre)
    /\ \E i, j \in 1..Len(last.pre) : i < j /\ last.pre[i].order > last.pre[j].order

\* C9: add_step with explicit order k gives the new step order k, adds 1 to
\* the order of every existing step whose order was >= k and leaves the
\* order of every existing step whose order was < k as it was.
C9_AddShifts ==
    (last.op = "add_step" /\ last.order # NoOrder) =>
        /\ Ids(plan) = PreIds \cup {nextId - 1}
        /\ (nextId - 1) \notin PreIds
        /\ OrderOf(plan, nextId - 1) = last.order
        /\ \A a \in PreIds :
              OrderOf(plan, a) =
                  IF PreOrderOf(a) >= last.order THEN PreOrderOf(a) + 1
                  ELSE PreOrderOf(a)

\* an add_step with explicit order k ran on a plan that held a step below k
\* and the step at k
C9_Witness ==
    /\ last.op = "add_step" /\ last.order # NoOrder
    /\ \E a, b \in PreIds :
          /\ PreOrderOf(a) < last.order
          /\ PreOrderOf(b) = last.order

\* C10: add_step with order omitted appends: the new step gets order
\* N + 1, is the last element of steps, has the largest order of the plan,
\* and no existing step's order changes.  It fails on a plan whose orders
\* have a gap (C1): the default N + 1 can lie below an existing order.
C10_OmittedOrderAppends ==
    (last.op = "add_step" /\ last.order = NoOrder) =>
        /\ OrderOf(plan, nextId - 1) = Len(last.pre) + 1
        /\ plan.steps[Len(plan.steps)].step_id = nextId - 1
        /\ \A o \in Orders(plan) : o <= Len(last.pre) + 1
        /\ \A a \in PreIds : OrderOf(plan, a) = PreOrderOf(a)

\* the steps the specification calls eligible: pending, and every id of
\* depends_on is the id of a step of the plan that is completed
Eligible(p) ==
    {i \in 1..Len(p.steps) :
        /\ p.steps[i].status = "pending"
        /\ \A d \in p.steps[i].depends_on :
              \E j \in 1..Len(p.steps) :
                  p.steps[j].step_id = d /\ p.steps[j].status = "completed"}

\* C3: get_next_step never returns a step that is not pending, nor a step
\* whose depends_on holds the id of an existing step that is not completed.
C3_NextStepIsPendingAndUnblocked ==
    \A r \in {get_next_step(plan)} :
        r # <<>> =>
            /\ r[1].status = "pending"
            /\ \A d \in r[1].depends_on :
                  \A j \in 1..Len(plan.steps) :
                      plan.steps[j].step_id = d => plan.steps[j].status = "completed"

\* get_next_step passes over a pending step of smaller order whose
\* dependency is an existing step that is not completed
C3_Witness ==
    /\ get_next_step(plan) # <<>>
    /\ \E i, j \in 1..Len(plan.steps) :
          /\ plan.steps[i].status = "pending"
          /\ plan.steps[i].order < get_next_step(plan)[1].order
          /\ plan.steps[j].step_id \in plan.steps[i].depends_on
          /\ plan.steps[j].status # "completed"

\* C4: get_next_step returns the eligible step of smallest order, and None
\* exactly when no step is eligible.
C4_NextStepIsFirstEligible ==
    IF Eligible(plan) = {} THEN get_next_step(plan) = <<>>
    ELSE /\ Len(get_next_step(plan)) = 1
         /\ \E i \in Eligible(plan) :
               /\ get_next_step(plan)[1] = plan.steps[i]
               /\ \A j \in Eligible(plan) : plan.steps[i].order <= plan.steps[j].order

\* Scenario B: get_next_step returns a step whose dependency is a completed
\* step of the plan
C4_Witness ==
    /\ get_next_step(plan) # <<>>
    /\ \E j \in 1..Len(plan.steps) :
          /\ plan.steps[j].step_id \in get_next_step(plan)[1].depends_on
          /\ plan.steps[j].status = "completed"

\* the ids in the depends_on of the step stored at i that match no step
Dangling(p, i) == p.steps[i].depends_on \ Ids(p)

\* C16: a pending step whose depends_on holds an id that matches no step of
\* the plan (never issued, or the id of a step since deleted) is never
\* returned by get_next_step, in that state or in any later one: no state
\* has get_next_step return a step with such an id, and no add_step,
\* update_step, delete_step or reset_steps makes such an id match a step or
\* takes it out of the depends_on of a step that stays.
C16_DanglingNeverNext ==
    /\ [](\A r \in {get_next_step(plan)} :
            r # <<>> => r[1].depends_on \subseteq Ids(plan))
    /\ [][\A i \in 1..Len(plan.steps) : \A d \in Dangling(plan, i) :
            /\ d \notin Ids(plan')
            /\ \A j \in 1..Len(plan'.steps) :
                  plan'.steps[j].step_id = plan.steps[i].step_id =>
                      d \in plan'.steps[j].depends_on]_vars

\* a pending step depends on an id that never was and on a step that was
\* deleted; a step was added after the delete, behind it, and
\* get_next_step returns the new step and passes over the first
C16_Witness ==
    /\ last.op = "add_step"
    /\ Len(plan.steps) = 2
    /\ plan.steps[1].order < plan.steps[2].order
    /\ plan.steps[1].status = "pending"
    /\ ForeignId \in Dangling(plan, 1)
    /\ \E d \in Dangling(plan, 1) : d # ForeignId
    /\ Len(last.pre) = 1
    /\ last.pre[1].step_id = plan.steps[1].step_id
    /\ get_next_step(plan) = <<plan.steps[2]>>

\* how many steps have a status
Count(p, status) ==
    Cardinality({i \in 1..Len(p.steps) : p.steps[i].status = status})

\* the derivation as the specification states it, rule by rule
Derivation(p) ==
    CASE Len(p.steps) = 0 -> "not_started"
      [] Len(p.steps) > 0 /\ Count(p, "completed") = Len(p.steps) -> "completed"
      [] Len(p.steps) > 0 /\ Count(p, "completed") < Len(p.steps)
            /\ Count(p, "failed") > 0 -> "failed"
      [] Len(p.steps) > 0 /\ Count(p, "completed") < Len(p.steps)
            /\ Count(p, "failed") = 0
            /\ Count(p, "in_progress") + Count(p, "completed") > 0 -> "in_progress"
      [] OTHER -> "not_started"

\* C5: right after every successful add_step, update_step or delete_step
\* the plan status is the derivation of the current step statuses.
C5_StatusIsDerived ==
    (last.op \in {"add_step", "update_step", "delete_step"} /\ last.ok) =>
        plan.status = Derivation(plan)

\* an update_step left a failed step beside a completed one: failed wins
C5_Witness ==
    /\ last.op = "update_step" /\ last.ok
    /\ Count(plan, "failed") > 0 /\ Count(plan, "completed") > 0
    /\ plan.status = "failed"

\* the multiset of step statuses: how many steps have each status
StatusBag(p) == [s \in StepStatus |-> Count(p, s)]
StatusSeq(p) == [i \in 1..Len(p.steps) |-> p.steps[i].status]

\* C6: the derivation is a function of the multiset of step statuses: two
\* plans with the same multiset get the same plan status when it runs,
\* whatever the sequence of their steps and their status before.
C6_DerivationIsPure ==
    (last.op = "derive" /\ StatusBag(plan) = StatusBag(other)) =>
        plan.status = other.status

\* the derivation ran on two plans with the same statuses in different
\* sequence, and both came out failed
C6_Witness ==
    /\ last.op = "derive"
    /\ StatusBag(plan) = StatusBag(other)
    /\ StatusSeq(plan) # StatusSeq(other)
    /\ plan.status = "failed" /\ other.status = "failed"

\* C14: in every reachable plan state the five counts of get_progress sum
\* to total_steps, total_steps is the number of steps, and
\* completion_percentage lies in [0, 100].
C14_ProgressCountsSum ==
    \A g \in {get_progress(plan)} :
        /\ g.completed_steps + g.in_progress_steps + g.pending_steps
              + g.failed_steps + g.skipped_steps = g.total_steps
        /\ g.total_steps = Len(plan.steps)
        /\ g.completion_percentage >= 0
        /\ g.completion_percentage <= 100 * PercentScale

\* a plan of one completed and one skipped step: 50 percent
C14_Witness ==
    /\ Len(plan.steps) = 2
    /\ get_progress(plan).completed_steps = 1
    /\ get_progress(plan).skipped_steps = 1
    /\ get_progress(plan).completion_percentage = 50 * PercentScale

\* C17: a step's completed_at is set if and only if some update_step has
\* set that step's status to completed since the step was created or last
\* reset (last.done); in particular every completed step has it set.
C17_CompletedAtIffCompletedSince ==
    \A i \in 1..Len(plan.steps) :
        /\ plan.steps[i].completed_at <=> plan.steps[i].step_id \in last.done
        /\ plan.steps[i].status = "completed" => plan.steps[i].completed_at

\* a step that was completed and then failed keeps its completed_at; the
\* step beside it was never completed and has none
C17_Witness ==
    /\ Len(plan.steps) = 2
    /\ \E i, j \in 1..2 :
          /\ plan.steps[i].status = "failed"
          /\ plan.steps[i].completed_at
          /\ plan.steps[i].step_id \in last.done
          /\ plan.steps[j].status = "in_progress"
          /\ ~plan.steps[j].completed_at

(* ==================== frame properties of the aggregate ================ *)
\* C11: update_step and delete_step called with a step id that is not in
\* the plan return failure and leave the whole plan as it was: the steps,
\* their orders and statuses, the plan status and the plan's updated_at.
C11_NotFoundChangesNothing ==
    (last.op \in {"update_step", "delete_step"} /\ ~last.known) =>
        /\ ~last.ok
        /\ plan = other

\* a delete_step with an unknown id ran on a plan of two steps, one of them
\* completed
C11_Witness ==
    /\ last.op = "delete_step" /\ ~last.known
    /\ Len(plan.steps) = 2
    /\ Count(plan, "completed") = 1

\* C12: reset_steps sets every step's status to pending, clears every
\* completed_at and sets the plan status to not_started; the steps stay the
\* same steps in the same sequence, each with the id, order, description,
\* depends_on and notes it had.
C12_ResetKeepsTheRest ==
    last.op = "reset_steps" =>
        /\ plan.status = "not_started"
        /\ Len(plan.steps) = Len(other.steps)
        /\ \A i \in 1..Len(plan.steps) :
              /\ plan.steps[i].status = "pending"
              /\ plan.steps[i].completed_at = FALSE
              /\ plan.steps[i].step_id = other.steps[i].step_id
              /\ plan.steps[i].order = other.steps[i].order
              /\ plan.steps[i].description = other.steps[i].description
              /\ plan.steps[i].depends_on = other.steps[i].depends_on
              /\ plan.steps[i].notes = other.steps[i].notes

\* reset_steps ran on a completed plan of two steps with different
\* descriptions, one of them with a dependency and with notes given by an
\* update_step
C12_Witness ==
    /\ last.op = "reset_steps"
    /\ other.status = "completed"
    /\ Len(other.steps) = 2
    /\ other.steps[1].description # other.steps[2].description
    /\ \E i \in 1..2 :
          /\ other.steps[i].completed_at
          /\ other.steps[i].depends_on # {}
          /\ other.steps[i].notes = "n1"

\* a plan with its updated_at left out
SansStamp(p) == [plan_id |-> p.plan_id, name |-> p.name,
                 user_id |-> p.user_id, created_at |-> p.created_at,
                 description |-> p.description, status |-> p.status,
                 steps |-> p.steps]

\* C13: reset_steps is idempotent: a reset_steps called right after a
\* reset_steps leaves the step statuses, completed_at values, orders and
\* the plan status (all of the plan but updated_at) as the first left them.
C13_ResetIdempotent ==
    (last.op = "reset_steps" /\ last.again) =>
        SansStamp(plan) = SansStamp(other)

\* reset_steps ran twice in a row on a plan of two steps, one with notes;
\* the second call changed updated_at only
C13_Witness ==
    /\ last.op = "reset_steps" /\ last.again
    /\ Len(plan.steps) = 2
    /\ \E i \in 1..2 : plan.steps[i].notes = "n1"
    /\ plan.updated_at # other.updated_at
    /\ SansStamp(plan) = SansStamp(other)

\* C15: for a plan with zero steps get_progress returns total 0, all five
\* counts 0 and completion_percentage 0.0, and the plan status after the
\* delete_step that removed the last step is not_started.
C15_EmptyPlanProgress ==
    Len(plan.steps) = 0 =>
        /\ get_progress(plan) =
              [total_steps |-> 0, completed_steps |-> 0, in_progress_steps |-> 0,
               pending_steps |-> 0, failed_steps |-> 0, skipped_steps |-> 0,
               completion_percentage |-> 0]
        /\ (last.op = "delete_step" /\ last.ok) => plan.status = "not_started"

\* delete_step removed the only step of a completed plan
C15_Witness ==
    /\ last.op = "delete_step" /\ last.ok
    /\ Len(plan.steps) = 0
    /\ Len(other.steps) = 1
    /\ other.status = "completed"
    /\ get_progress(other).completion_percentage = 100 * PercentScale

(* ======================== properties of the services =================== *)
\* C7: two load -> mutate -> save cycles on one plan can both report
\* success while the stored plan holds only one party's mutation; no version
\* check rejects the stale writer: a save is refused only when another write
\* landed between its own fetch of the document and its save, never because
\* the aggregate it writes was loaded from an older revision.
C7_StaleWriterNotRejected ==
    \A w \in Callers :
        (svc[w].pc = "done" /\ svc[w].result = "raised") =>
            svc[w].put_rev > svc[w].fetch_rev

\* both callers loaded the same revision and both report success; the
\* document is the second writer's aggregate and lacks the step the first
\* writer added
C7_Witness ==
    \E w1, w2 \in Callers :
        /\ w1 # w2
        /\ svc[w1].pc = "done" /\ svc[w1].result = "true"
        /\ svc[w2].pc = "done" /\ svc[w2].result = "true"
        /\ svc[w1].op = "add_step_to_plan"
        /\ svc[w2].op = "update_step_status"
        /\ svc[w1].load_rev = svc[w2].load_rev
        /\ svc[w1].put_rev < svc[w2].put_rev
        /\ store.present
        /\ store.doc = plan_to_dict(svc[w2].plan)
        /\ \A i \in 1..Len(store.doc.steps) :
              store.doc.steps[i].step_id # svc[w1].new_id

\* the plan a stored document parses to
Stored == dict_to_plan(store.doc)

\* the request holds an aggregate it has mutated
Holds(w) ==
    \/ svc[w].pc \in {"fetch", "save"}
    \/ svc[w].pc = "done" /\ svc[w].result = "true" /\ svc[w].op # "get_plan"

\* C18: the plan status equals the derivation of the current step statuses
\* unless a metadata update has set it since the last step mutation, in the
\* stored document and in every aggregate a request has mutated; create,
\* regenerate and reset never leave it different from the derivation.
C18_StatusDerivedUnlessSet ==
    /\ (store.present /\ ~store.explicit) =>
            Stored.status = Derivation(Stored)
    /\ \A w \in Callers :
          /\ (Holds(w) /\ ~svc[w].explicit) =>
                svc[w].plan.status = Derivation(svc[w].plan)
          /\ (Holds(w) /\ svc[w].op \in {"regenerate_plan", "reset_plan_steps"}) =>
                /\ ~svc[w].explicit
                /\ svc[w].plan.status = Derivation(svc[w].plan)
    /\ last.op = "create_plan_with_steps" => plan.status = Derivation(plan)

\* a metadata update paused the plan and was saved; then an update of a
\* step's status loaded the paused plan and was saved, and the stored status
\* is the derived in_progress
C18_Witness ==
    \E v, w \in Callers :
        /\ svc[v].op = "update_plan_metadata" /\ svc[v].pc = "done"
        /\ svc[v].explicit /\ svc[v].plan.status = "paused"
        /\ svc[v].plan.status # Derivation(svc[v].plan)
        /\ svc[v].put_rev = 1
        /\ svc[w].op = "update_step_status" /\ svc[w].pc = "done"
        /\ svc[w].load_rev = 2 /\ svc[w].put_rev = 2
        /\ store.rev = 3 /\ ~store.explicit
        /\ Stored.status = "in_progress"

\* C19: after a regenerate_plan with k step requests whose write is the
\* stored document, the stored plan has exactly k steps, built from the
\* requests in sequence with ids issued to this request (none of the steps
\* the plan had), every step pending with completed_at None, plan status
\* not_started, and the new description when one was given.
C19_RegenerateReplacesSteps ==
    \A w \in Callers :
        (/\ svc[w].op = "regenerate_plan"
         /\ svc[w].pc = "done" /\ svc[w].result = "true"
         /\ store.present /\ store.rev = svc[w].put_rev + 1) =>
            /\ Len(Stored.steps) = Len(svc[w].requests)
            /\ \A i \in 1..Len(Stored.steps) :
                  /\ Stored.steps[i].step_id = svc[w].new_id + i - 1
                  /\ Stored.steps[i].order = i
                  /\ Stored.steps[i].status = "pending"
                  /\ Stored.steps[i].completed_at = FALSE
            /\ Ids(Stored) \cap Ids(plan) = {}
            /\ Stored.status = "not_started"
            /\ svc[w].text # NoText => Stored.description = svc[w].text

\* a regenerate_plan with two requests and a new description replaced a
\* plan of two steps that another request had completed one of
C19_Witness ==
    \E v, w \in Callers :
        /\ svc[v].op = "update_step_status" /\ svc[v].pc = "done"
        /\ svc[v].put_rev = 1
        /\ Count(svc[v].plan, "completed") = 1 /\ Len(svc[v].plan.steps) = 2
        /\ svc[w].op = "regenerate_plan" /\ svc[w].pc = "done"
        /\ svc[w].result = "true"
        /\ svc[w].load_rev = 2 /\ svc[w].put_rev = 2 /\ store.rev = 3
        /\ Len(svc[w].requests) = 2 /\ svc[w].text = "new"
        /\ Stored.description = "new"

\* the order of every request is omitted or is its place in the sequence
InSequence(reqs) == \A i \in 1..Len(reqs) : reqs[i] \in {NoOrder, i}

\* C20: create_plan_with_steps with k >= 1 step requests whose orders are
\* omitted or given as 1..k in request sequence returns and stores a plan of
\* exactly k steps with orders 1..k in request sequence, every step pending,
\* and plan status not_started; a get_plan of the document it wrote returns
\* the same plan.
C20_CreateStoresInSequence ==
    (last.op = "create_plan_with_steps" /\ InSequence(last.requests)) =>
        /\ Len(last.requests) >= 1
        /\ Len(plan.steps) = Len(last.requests)
        /\ \A i \in 1..Len(plan.steps) :
              /\ plan.steps[i].step_id = i
              /\ plan.steps[i].order = i
              /\ plan.steps[i].status = "pending"
        /\ plan.status = "not_started"
        /\ store.rev = 1 => (store.present /\ Stored = plan)
        /\ \A w \in Callers :
              (svc[w].op = "get_plan" /\ svc[w].load_rev = 1) =>
                  (svc[w].result = "true" /\ svc[w].plan = plan)

\* a plan was created from two requests, the first with its order omitted
\* and the second with order 2, and a get_plan has read it
C20_Witness ==
    /\ last.op = "create_plan_with_steps"
    /\ last.requests = <<NoOrder, 2>>
    /\ store.rev = 1
    /\ \E w \in Callers :
          /\ svc[w].op = "get_plan" /\ svc[w].pc = "done"
          /\ svc[w].result = "true"
          /\ Len(svc[w].plan.steps) = 2

(* ============================ gateway reads ============================ *)
\* C21: a read of the gateway that meets a plan document which does not
\* parse (get_plan by id, get_plans with a filter) ends in an error at its
\* caller; it never returns a result.
C21_CorruptNeverSwallowed ==
    \A w \in Callers :
        (svc[w].pc = "done" /\ svc[w].op \in {"get_plan", "get_plans"}
            /\ svc[w].corrupt)
        => svc[w].result = "raised"
(* ===================== not found at the services ======================= *)
Mutations ==
    {"update_step_status", "add_step_to_plan", "delete_step_from_plan",
     "reset_plan_steps", "update_plan_metadata", "regenerate_plan"}

\* the request of w met no stored plan, or a plan without the step it names
NotFound(req) == req.op \in Mutations /\ (~req.found \/ ~req.known)

\* C22: a mutation of the services (update_step_status and skip_step,
\* add_step_to_plan, delete_step_from_plan, reset_plan_steps,
\* update_plan_metadata, regenerate_plan) that finds no plan stored under
\* the id, or no step of the id in the loaded plan, returns a negative
\* result, does not raise, and writes nothing to the store.
C22_NotFoundIsNegative ==
    /\ [](\A w \in Callers :
            NotFound(svc[w]) =>
                /\ svc[w].pc = "done"
                /\ svc[w].result = "false"
                /\ svc[w].fetch_rev = 0
                /\ svc[w].put_rev = 0)
    /\ [][\A w \in Callers :
            (svc[w].pc = "idle" /\ NotFound(svc'[w])) => store' = store]_vars

\* both cases happened: a request met no plan, another an unknown step of a
\* stored plan
C22_Witness ==
    /\ svc["a"].op = "delete_step_from_plan" /\ svc["a"].found
    /\ ~svc["a"].known /\ svc["a"].pc = "done"
    /\ svc["b"].op = "regenerate_plan" /\ ~svc["b"].found
    /\ svc["b"].pc = "done"
(* ======================= update_step and its frame ===================== *)
\* the step of the id in plan p
StepOf(p, id) == get_step(p, id)[1]

\* every step of another id is in q what it was in p, at the same place
OthersKept(p, q, id) ==
    /\ Len(q.steps) = Len(p.steps)
    /\ \A i \in 1..Len(p.steps) :
          p.steps[i].step_id # id => q.steps[i] = p.steps[i]

\* C23: update_step on a step of the plan with notes and no status
\* replaces the notes and leaves the step's status and completed_at as they
\* were; with a status and notes the step ends with that status and those
\* notes; in both cases every other step stays as it was.
C23_UpdateStepNotes ==
    (last.op = "update_step" /\ last.ok
        /\ last.requests[1].notes # NoNotes) =>
        LET r == last.requests[1]
            pre == StepOf(other, r.step_id)
            post == StepOf(plan, r.step_id)
        IN /\ post.notes = r.notes
           /\ r.status = NoStatus =>
                 /\ post.status = pre.status
                 /\ post.completed_at = pre.completed_at
           /\ r.status # NoStatus => post.status = r.status
           /\ OthersKept(other, plan, r.step_id)

\* notes alone were given to a completed step that had the notes it was
\* added with, in a plan with a second step
C23_Witness ==
    /\ last.op = "update_step" /\ last.ok
    /\ last.requests[1].status = NoStatus
    /\ last.requests[1].notes = "n1"
    /\ Len(other.steps) = 2
    /\ StepOf(other, last.requests[1].step_id).status = "completed"
    /\ StepOf(other, last.requests[1].step_id).notes = "n2"
(* ============================ skipped steps ============================ *)
\* C24: a plan with a skipped step never has the derived status completed:
\* when all its other steps (there are some) are completed its status is
\* in_progress, and when every step is skipped or pending it is
\* not_started.
C24_SkippedNeverCompletes ==
    Count(plan, "skipped") > 0 =>
        /\ plan.status # "completed"
        /\ (/\ Count(plan, "completed") > 0
            /\ Count(plan, "completed") + Count(plan, "skipped")
                   = Len(plan.steps))
           => plan.status = "in_progress"
        /\ Count(plan, "pending") + Count(plan, "skipped") = Len(plan.steps)
           => plan.status = "not_started"

\* an update_step left one step completed and the other skipped: no step
\* is open, and the plan is in progress
C24_Witness ==
    /\ last.op = "update_step" /\ last.ok
    /\ Len(plan.steps) = 2
    /\ Count(plan, "completed") = 1 /\ Count(plan, "skipped") = 1
    /\ plan.status = "in_progress"
(* ========================= stability of add_step ======================= *)
\* the place of the step of the id in the stored sequence, now and before
\* the last operation
PosOf(p, id) == CHOOSE i \in 1..Len(p.steps) : p.steps[i].step_id = id
PrePosOf(id) == CHOOSE i \in 1..Len(last.pre) : last.pre[i].step_id = id

\* C25: add_step keeps the existing steps in their relative order: of two
\* steps that were in the plan, the one with the smaller order still has
\* the smaller order, and the one stored first is still stored first.
C25_AddStepIsStable ==
    last.op = "add_step" =>
        \A a, b \in PreIds :
            /\ PreOrderOf(a) < PreOrderOf(b)
                  => OrderOf(plan, a) < OrderOf(plan, b)
            /\ PrePosOf(a) < PrePosOf(b)
                  => PosOf(plan, a) < PosOf(plan, b)

\* an add_step with an order given ran on a plan of two steps at or behind
\* that order, the one stored first with the larger order, and shifted both
C25_Witness ==
    /\ last.op = "add_step" /\ last.order # NoOrder
    /\ \E a, b \in PreIds :
          /\ PrePosOf(a) < PrePosOf(b)
          /\ PreOrderOf(a) > PreOrderOf(b)
          /\ PreOrderOf(b) >= last.order
(* ========================== dependency cycles ========================== *)
\* the pending steps that the pending steps of S depend on
PendingDeps(p, S) ==
    {d \in UNION {p.steps[i].depends_on :
                     i \in {j \in 1..Len(p.steps) : p.steps[j].step_id \in S}} :
        \E i \in 1..Len(p.steps) :
            p.steps[i].step_id = d /\ p.steps[i].status = "pending"}

\* the pending steps reached from S along depends_on in 1..k moves
RECURSIVE ReachPending(_, _, _)
ReachPending(p, S, k) ==
    IF k = 0 THEN {}
    ELSE PendingDeps(p, S) \cup ReachPending(p, PendingDeps(p, S), k - 1)

\* the step is pending and depends on itself, at once or by way of other
\* pending steps
OnPendingCycle(p, id) ==
    /\ \E i \in 1..Len(p.steps) :
          p.steps[i].step_id = id /\ p.steps[i].status = "pending"
    /\ id \in ReachPending(p, {id}, Len(p.steps))

\* C26: get_next_step never returns a step of a dependency cycle whose
\* steps are all pending, a step that names itself in depends_on included.
C26_CycleNeverNext ==
    last.op = "get_next_step" =>
        \A i \in 1..Len(last.requests) :
            ~OnPendingCycle(plan, last.requests[i].step_id)

\* get_next_step returned nothing on a plan of two pending steps that
\* depend on each other, the first also on itself
C26_Witness ==
    /\ last.op = "get_next_step"
    /\ last.requests = <<>>
    /\ Len(plan.steps) = 2
    /\ plan.steps[1].depends_on = {1, 2}
    /\ plan.steps[2].depends_on = {1}
    /\ \A i \in 1..2 : plan.steps[i].status = "pending"
(* ============================ distinct orders ========================== *)
\* C28: from the empty plan, after any sequence of add_step (with an order
\* of at least 1, or none), update_step, delete_step and reset_steps, no
\* two steps of the plan have the same order, and every order is at least 1.
C28_OrdersDistinct ==
    /\ \A i, j \in 1..Len(plan.steps) :
          i # j => plan.steps[i].order # plan.steps[j].order
    /\ \A i \in 1..Len(plan.steps) : plan.steps[i].order >= 1

\* an add_step left three steps whose orders have a gap and which are not
\* stored in the sequence of their orders
C28_Witness ==
    /\ last.op = "add_step"
    /\ Len(plan.steps) = 3
    /\ ~Contiguous(plan)
    /\ ~Ascending(plan)
(* ========================== working a plan off ========================= *)
\* every step is completed, so is the plan, and there is no next step
Finished ==
    /\ \A i \in 1..Len(plan.steps) : plan.steps[i].status = "completed"
    /\ plan.status = "completed"
    /\ get_next_step(plan) = <<>>

\* C29 as stated: on every plan whose steps are pending or completed and
\* whose dependencies are steps of the plan without a cycle, the caller that
\* keeps completing the step get_next_step returns reaches a state with
\* every step completed, the plan completed and no next step.  It fails on
\* the plan without steps, and on a plan whose steps are all completed and
\* whose status was set by hand: no step is returned, and none is marked.
C29_EventuallyCompleted == <>Finished

\* C29, for a plan with a pending step: from every state with a pending
\* step the caller reaches a state with every step completed, the plan
\* completed and no next step.
C29_PendingLeadsToCompleted == (Count(plan, "pending") > 0) ~> Finished

\* the caller completed two steps one by one, the step of order 1 last
\* since it depends on the other, and was then given no next step
C29_Witness ==
    /\ last.op = "get_next_step" /\ last.requests = <<>>
    /\ Len(plan.steps) = 2
    /\ \E i, j \in 1..2 :
          /\ plan.steps[i].order = 1
          /\ plan.steps[i].depends_on = {plan.steps[j].step_id}
          /\ i # j
    /\ last.done = {1, 2}
    /\ Finished
(* ================== the other steps under add and delete =============== *)
\* the step but for its order
SansOrder(step) == [step EXCEPT !.order = NoOrder]

\* C30: add_step and delete_step change nothing but the order of the steps
\* they do not add or delete: each keeps its id, status, description,
\* notes, completed_at and depends_on; add_step keeps every step, and
\* delete_step every step but one, whose id stays in the depends_on of the
\* steps that named it.
C30_OthersKeepTheirFields ==
    (last.op \in {"add_step", "delete_step"} /\ last.ok) =>
        /\ \A id \in Ids(other) \cap Ids(plan) :
              SansOrder(StepOf(plan, id)) = SansOrder(StepOf(other, id))
        /\ last.op = "add_step" =>
              /\ Ids(other) \subseteq Ids(plan)
              /\ Len(plan.steps) = Len(other.steps) + 1
        /\ last.op = "delete_step" =>
              /\ Ids(plan) \subseteq Ids(other)
              /\ Len(plan.steps) = Len(other.steps) - 1

\* delete_step took the step of order 1 out; the step that stays depended
\* on it and still does, is completed and has notes, and moved from order 2
\* to order 1
C30_Witness ==
    /\ last.op = "delete_step" /\ last.ok
    /\ Len(plan.steps) = 1
    /\ plan.steps[1].depends_on # {}
    /\ plan.steps[1].depends_on \subseteq Ids(other) \ Ids(plan)
    /\ plan.steps[1].completed_at
    /\ plan.steps[1].notes = "n2"
    /\ plan.steps[1].order = 1
    /\ StepOf(other, plan.steps[1].step_id).order = 2
(* ===================== status updates and dependencies ================= *)
\* C31: update_step with one of the five statuses on a step of the plan
\* succeeds and leaves the step with that status, whatever status the step
\* had and whatever the statuses of the steps it depends on.
C31_UpdateSetsAnyStatus ==
    (last.op = "update_step" /\ last.known) =>
        /\ last.ok
        /\ StepOf(plan, last.requests[1].step_id).status
              = last.requests[1].status

\* a completed step was set back to pending, and the step that depends on
\* it was then completed
C31_Witness ==
    /\ last.op = "update_step" /\ last.ok
    /\ last.requests[1].status = "completed"
    /\ Len(plan.steps) = 2
    /\ last.requests[1].step_id = plan.steps[2].step_id
    /\ plan.steps[2].depends_on = {plan.steps[1].step_id}
    /\ plan.steps[1].status = "pending"
    /\ plan.steps[1].completed_at
(* ====================== what a save leaves stored ====================== *)
\* the request of w wrote the stored revision
SavedBy(w) ==
    /\ svc[w].pc = "done" /\ svc[w].result = "true"
    /\ svc[w].op \in Mutations
    /\ svc[w].put_rev > 0
    /\ svc[w].put_rev + 1 = store.rev

\* the stored document is the whole aggregate of the one request that wrote
\* it, or of the create; and the stored orders are pairwise distinct
WholeAggregate ==
    /\ store.rev = 1 => store.doc = plan_to_dict(plan)
    /\ store.rev > 1 =>
          \E w \in Callers :
              SavedBy(w) /\ store.doc = plan_to_dict(svc[w].plan)
    /\ \A i, j \in 1..Len(Stored.steps) :
          i # j => Stored.steps[i].order # Stored.steps[j].order

\* C32 as stated: under every interleaving of load -> mutate -> save cycles
\* on one plan id the stored document is the whole aggregate of the one
\* cycle that saved it, so the stored orders are pairwise distinct and the
\* stored status is the derivation of the stored steps or was set by that
\* cycle.  It fails when a metadata update that gives no status saves a plan
\* it loaded with a status an earlier metadata update had set.
C32_SavedStatusDerivedOrSetByCycle ==
    store.present =>
        /\ WholeAggregate
        /\ \/ Stored.status = Derivation(Stored)
           \/ \E w \in Callers :
                 /\ SavedBy(w)
                 /\ svc[w].op = "update_plan_metadata"
                 /\ svc[w].status # NoStatus

\* C32, with the status that a cycle carries over: the stored document is
\* the whole aggregate of the one cycle that saved it, the stored orders
\* are pairwise distinct, and the stored status is the derivation of the
\* stored steps or was set by a metadata update, that cycle's or an earlier
\* one's, with no step mutation saved since.
C32_SaveWritesWholeAggregate ==
    store.present =>
        /\ WholeAggregate
        /\ Stored.status = Derivation(Stored) \/ store.explicit

\* both callers loaded the created plan and both saved: the stored document
\* is the aggregate of the second writer, which added a step, and has
\* nothing of the first writer's regenerate
C32_Witness ==
    \E v, w \in Callers :
        /\ svc[v].op = "regenerate_plan" /\ svc[v].pc = "done"
        /\ svc[v].result = "true" /\ svc[v].put_rev = 1
        /\ svc[w].op = "add_step_to_plan" /\ SavedBy(w)
        /\ svc[w].load_rev = 1 /\ svc[w].put_rev = 2
        /\ store.present
        /\ store.doc = plan_to_dict(svc[w].plan)
        /\ store.doc # plan_to_dict(svc[v].plan)
        /\ Ids(Stored) \cap Ids(svc[v].plan) = {}
(* ========================= saves after a delete ======================== *)
\* the plan was stored and has been deleted
Deleted == store.rev > 0 /\ ~store.present

\* C33: once delete_plan has removed the plan, the save of a cycle that
\* had loaded it before writes nothing and the plan stays absent: no step
\* changes the store after the delete.
C33_DeletedStaysDeleted == [][Deleted => store' = store]_vars

\* a caller loaded the plan and fetched the document for its save, the
\* other deleted the plan, and the save was then refused: the plan is
\* absent
C33_Witness ==
    \E v, w \in Callers :
        /\ svc[v].op = "delete_plan" /\ svc[v].pc = "done"
        /\ svc[v].result = "true" /\ svc[v].put_rev = 1
        /\ svc[w].op = "add_step_to_plan" /\ svc[w].pc = "done"
        /\ svc[w].load_rev = 1 /\ svc[w].fetch_rev = 1
        /\ svc[w].put_rev = 2
        /\ svc[w].result = "raised"
        /\ Deleted
(* ====================== success of a mutation ========================== *)
\* C34: whenever a service-level mutation returns a success result its
\* save wrote the mutated plan to the store: the request reached db.save
\* and the store took the write. A save that found the plan missing is
\* never reported as success.
C34_SuccessMeansSaved ==
    \A w \in Callers :
        (svc[w].pc = "done" /\ svc[w].op \in Mutations
            /\ svc[w].result = "true") =>
            /\ svc[w].put_rev > 0
            /\ svc[w].fetch_rev > 0
(* ===================== the document round trip ========================= *)
(* A drawn plan is stored by create_plan and loaded again by get_plan.     *)
\* Plan.name: as created, or set by a metadata update
RoundNames == {PlanName, "renamed"}

\* a plan of up to MaxRoundSteps steps added in sequence, each depending on
\* nothing or on the id before its own (for the first step the id of no
\* step), with any step statuses, notes and plan status
RoundPlan(s, st, nm, nt, dp) ==
    [PlanOf(s, st) EXCEPT
        !.name = nm,
        !.steps = [i \in 1..Len(s) |->
                      [@[i] EXCEPT !.notes = nt[i],
                                   !.depends_on = IF dp[i] THEN {i - 1}
                                                  ELSE {}]]]

InitRound ==
    /\ \E n \in 0..MaxRoundSteps :
          \E s \in [1..n -> StepStatus], st \in PlanStatus,
             nm \in RoundNames, nt \in [1..n -> NoteChoices],
             dp \in [1..n -> BOOLEAN] :
                plan = RoundPlan(s, st, nm, nt, dp)
    /\ other = EmptyPlan
    /\ nextId = Len(plan.steps) + 1
    /\ last = [NoLast EXCEPT !.op = "drawn"]
    /\ store = NoStore
    /\ svc = [w \in Callers |-> Idle]
    /\ clock = 0

\* DatabaseConnection.create_plan: the document of the plan is saved
create_plan_call ==
    /\ last.op = "drawn"
    /\ store' = db_save(store, plan)
    /\ last' = [last EXCEPT !.op = "create_plan"]
    /\ UNCHANGED <<plan, nextId, other, svc, clock>>

\* DatabaseConnection.get_plan: other is the Plan returned
get_plan_call ==
    /\ last.op = "create_plan"
    /\ db_get_plan(store) # <<>>
    /\ other' = db_get_plan(store)[1]
    /\ last' = [last EXCEPT !.op = "get_plan"]
    /\ UNCHANGED <<plan, nextId, store, svc, clock>>

NextRound == Tick(MaxClock) \/ create_plan_call \/ get_plan_call

SpecRound == InitRound /\ [][NextRound]_vars

\* the fields of a step but its creation and update timestamps
SameStep(t, u) ==
    /\ t.step_id = u.step_id /\ t.order = u.order
    /\ t.description = u.description /\ t.status = u.status
    /\ t.depends_on = u.depends_on /\ t.notes = u.notes
    /\ t.completed_at = u.completed_at

\* C35: converting a plan to its stored document and back yields the same
\* plan: the plan loaded after a save has the plan id, name, description,
\* user id and status of the plan saved, and the same steps in the same
\* sequence with the same ids, orders, statuses, depends_on, notes and
\* completed_at presence.
C35_RoundTrip ==
    last.op = "get_plan" =>
        /\ other.plan_id = plan.plan_id /\ other.name = plan.name
        /\ other.description = plan.description
        /\ other.user_id = plan.user_id /\ other.status = plan.status
        /\ Len(other.steps) = Len(plan.steps)
        /\ \A i \in 1..Len(plan.steps) : SameStep(other.steps[i], plan.steps[i])

\* a renamed, paused plan of two steps was stored and loaded: one step is
\* completed with notes, the other pending without notes and depending on
\* the first
C35_Witness ==
    /\ last.op = "get_plan"
    /\ Len(plan.steps) = 2
    /\ plan.name = "renamed" /\ plan.status = "paused"
    /\ plan.steps[1].status = "completed" /\ plan.steps[1].completed_at
    /\ plan.steps[1].notes = "n1"
    /\ plan.steps[2].status = "pending" /\ ~plan.steps[2].completed_at
    /\ plan.steps[2].notes = NoNotes
    /\ plan.steps[2].depends_on = {plan.steps[1].step_id}
    /\ store.doc.steps[1].completed_at = "iso"
    /\ store.doc.steps[2].completed_at = "null"
(* ====================== regenerating a plan ============================ *)
(* A stored plan, created at any reading of the clock, is renamed and is   *)
(* regenerated with requests that may copy a dependency from it; each     *)
(* request loads the plan, changes it, fetches the document again and     *)
(* saves.                                                                  *)
\* the step ids of the stored plan
StoredIds ==
    IF store.present
    THEN {store.doc.steps[i].step_id : i \in 1..Len(store.doc.steps)}
    ELSE {}

\* RegeneratePlanRequest.steps: up to MaxRegenSteps requests with the order
\* omitted, the last depending on nothing or on one step of these ids
RegenStepRequests(ids) ==
    {[i \in 1..n |-> [order |-> NoOrder,
                      depends_on |-> IF i = n THEN deps ELSE {}]] :
        n \in 1..MaxRegenSteps, deps \in {{}} \cup {{d} : d \in ids}}

NextRegen ==
    \/ Tick(MaxClock)
    \/ CreatePlan(OmittedOrders(MaxRegenSteps))
    \/ \E w \in Callers :
          \/ UpdatePlanMetadataOf(w, {"renamed"}, {NoText}, {NoStatus})
          \/ RegeneratePlanOf(w, RegenStepRequests(StoredIds), TextChoices,
                              TRUE)
          \/ UpdatePlanFetch(w)
          \/ UpdatePlanSave(w)

SpecRegen == Init /\ [][NextRegen]_vars

\* the request of w is a regenerate_plan that found the plan
Regenerated(w) ==
    svc[w].op = "regenerate_plan" /\ svc[w].result # "false"

\* p and q are the same plan: id, name, user id and creation timestamp
SameIdentity(p, q) ==
    /\ p.plan_id = q.plan_id /\ p.name = q.name
    /\ p.user_id = q.user_id /\ p.created_at = q.created_at

\* C36: regenerate_plan leaves the plan's id, name, user id and creation
\* timestamp unchanged, and every step id present after it is fresh: no
\* step id of the previous step list survives, so a depends_on entry
\* copied from the old plan names no step of the new one.  The plan the
\* request holds, and the document once the request has saved it, have
\* the identity of the plan the request loaded.
C36_RegenerateKeepsIdentity ==
    \A w \in Callers :
        Regenerated(w) =>
            /\ SameIdentity(svc[w].plan, svc[w].loaded)
            /\ Ids(svc[w].plan) \cap Ids(svc[w].loaded) = {}
            /\ \A i \in 1..Len(svc[w].plan.steps) :
                  (svc[w].plan.steps[i].depends_on \cap Ids(svc[w].loaded))
                      \cap Ids(svc[w].plan) = {}
            /\ SavedBy(w) =>
                  /\ SameIdentity(dict_to_plan(store.doc), svc[w].loaded)
                  /\ Ids(dict_to_plan(store.doc)) \cap Ids(svc[w].loaded) = {}

\* a plan created at reading 1 with two steps and then renamed was
\* regenerated with two requests, the second depending on a step of the
\* old plan, and saved as the third revision: the stored entry names no
\* step of the stored plan
C36_Witness ==
    \E w \in Callers :
        /\ Regenerated(w) /\ SavedBy(w)
        /\ store.rev = 3
        /\ svc[w].loaded.name = "renamed" /\ svc[w].loaded.created_at = 1
        /\ Len(svc[w].loaded.steps) = 2
        /\ Len(svc[w].plan.steps) = 2
        /\ dict_to_plan(store.doc) = svc[w].plan
        /\ svc[w].plan.steps[2].depends_on # {}
        /\ svc[w].plan.steps[2].depends_on \subseteq Ids(svc[w].loaded)
        /\ ~(svc[w].plan.steps[2].depends_on \subseteq StoredIds)
(* ==================== the ends of the percentage ======================= *)
(* get_progress on a drawn plan: every plan of up to MaxPctSteps steps of  *)
(* any statuses, and long plans with none, one, all but one or all of      *)
(* their steps completed.                                                  *)
\* a plan of total steps added in sequence, the first done of them
\* completed and the others pending
LongPlan(total, done) ==
    update_plan_status(
        [EmptyPlan EXCEPT !.steps =
            [i \in 1..total |->
                IF i <= done
                THEN update_status(Step(i, i, "d1", {}, NoNotes), "completed",
                                   NoNotes)
                ELSE Step(i, i, "d1", {}, NoNotes)]])

InitPct ==
    /\ \/ \E n \in 1..MaxPctSteps : \E s \in [1..n -> StepStatus] :
              plan = update_plan_status(PlanOf(s, "not_started"))
       \/ \E t \in {NearTotal, LargeTotal} : \E c \in {0, 1, t - 1, t} :
              plan = LongPlan(t, c)
    /\ other = EmptyPlan
    /\ nextId = Len(plan.steps) + 1
    /\ last = NoLast
    /\ store = NoStore
    /\ svc = [w \in Callers |-> Idle]
    /\ clock = 0

NextPct == Tick(MaxClock) \/ (last.op = "init" /\ GetProgress)

SpecPct == InitPct /\ [][NextPct]_vars

\* from this many steps on, one step is at most half a hundredth of a
\* percent
HalfHundredth == 2 * 100 * PercentScale

Hundred == 100 * PercentScale
AllCompleted(p) == Count(p, "completed") = Len(p.steps)
NoneCompleted(p) == Count(p, "completed") = 0

\* C37 as stated: for every plan with at least one step, get_progress
\* reports completion_percentage 100 if and only if every step is
\* completed, which is exactly when the derivation yields plan status
\* completed; it reports 0 if and only if no step is completed.
C37_HundredIffAllCompleted ==
    (last.op = "get_progress" /\ Len(plan.steps) >= 1) =>
        /\ last.requests[1].completion_percentage = Hundred
                <=> AllCompleted(plan)
        /\ AllCompleted(plan) <=> DeriveStatus(plan.steps) = "completed"
        /\ last.requests[1].completion_percentage = 0 <=> NoneCompleted(plan)

\* C37, amended: every step is completed exactly when the derivation
\* yields completed, and then get_progress reports 100; with no step
\* completed it reports 0; and on a plan of fewer than 20,000 steps it
\* reports 100 only if every step is completed and 0 only if none is.
C37_HundredIffAllCompletedBelow ==
    (last.op = "get_progress" /\ Len(plan.steps) >= 1) =>
        /\ AllCompleted(plan) <=> DeriveStatus(plan.steps) = "completed"
        /\ AllCompleted(plan) =>
                last.requests[1].completion_percentage = Hundred
        /\ NoneCompleted(plan) => last.requests[1].completion_percentage = 0
        /\ Len(plan.steps) < HalfHundredth =>
              /\ last.requests[1].completion_percentage = Hundred
                      => AllCompleted(plan)
              /\ last.requests[1].completion_percentage = 0
                      => NoneCompleted(plan)

\* get_progress ran on a plan of NearTotal steps with all but one
\* completed, and reported less than 100
C37_Witness ==
    /\ last.op = "get_progress"
    /\ Len(plan.steps) = NearTotal
    /\ Count(plan, "completed") = NearTotal - 1
    /\ last.requests[1].completion_percentage = Hundred - 1
    /\ plan.status = "in_progress"
====
